---- MODULE Spec2Model ----
(***************************************************************************)
(* A model of NBAStatPy: the field registries of config.py, the column     *)
(* name normaliser, the formatters and validators of utils.py, the salary  *)
(* standardisation of Player.get_salary, the rate limiter and the bursty   *)
(* multi-request operations of League and Team.                            *)
(*                                                                         *)
(* The module holds several specifications, one per subsystem.  Each one   *)
(* moves only the variables of its subsystem; the variables of the other   *)
(* subsystems stay at their idle values.                                    *)
(***************************************************************************)
EXTENDS Integers, Sequences, FiniteSets, TLC

VARIABLES
    colRaw,            \* the raw column name handed to the normaliser
    colNorm,           \* the name after one normalisation
    colNorm2,          \* the name after a second normalisation
    colCats,           \* the categories the registry gives the normalised name
    colPhase,          \* "raw" | "normalized" | "renormalized" | "classified"
    gidIn,             \* the game ID handed to Formatter.format_game_id
    gidOut,            \* format_game_id(gidIn)
    gidBack,           \* int(gidOut)
    gidOut2,           \* format_game_id(gidOut)
    gidPhase,          \* "input" | "formatted" | "reparsed" | "reformatted"
    salUpstream,       \* the salary page: its layout and the rows of its tables
    salPlain,          \* what get_salary(standardize=False) gave
    salStd,            \* what get_salary(standardize=True) gave
    errSite,           \* the place an enum-like parameter is checked
    errInput,          \* the parameter value handed in
    errOutcome,        \* what the check gave: a value, or the error it raised
    callOp,            \* the wrapper method, constructor or tool called
    callArgs,          \* the arguments of the call
    callPc,            \* the step of the call that comes next
    callRequests,      \* the upstream requests the call has issued
    callStatus,        \* "running" | "rejected" | "returned"
    rateClock,         \* time(), in ticks
    rateLastCallTime,  \* rate_limiter._last_call_time: None, or a time in ticks
    rateRemaining,     \* the requests the burst has still to issue
    rateStarts,        \* the times at which the burst issued its requests
    ratePc,            \* "request" | "wait" | "done"
    stdRaw,            \* the raw table handed to standardize_dataframe
    stdOut,            \* the table standardize_dataframe returned
    stdPhase,          \* "raw" | "standardized"
    valTable,          \* the table handed to validate_dataframe
    valRequired,       \* required_columns: a set of column names
    valRules,          \* range_rules: a column, a minimum and a maximum each
    valResult,         \* the ValidationResult returned
    valPhase,          \* "table" | "validated"
    plrPlayer,         \* the player argument of Player(...)
    plrPermode,        \* the permode argument of Player(...)
    plrNameMeta,       \* self.name_meta: the matches found so far
    plrSearches,       \* the static lookups made, in order
    plrObj,            \* the Player built, or the error raised
    plrPc,             \* "permode" | "by_id" | "by_name" | "select" | "done"
    rngSite,           \* the range check called
    rngInput,          \* the value handed to it: an int, or None
    rngResult,         \* what it returned or raised
    rngPhase,          \* "input" | "checked"
    pstSeason,         \* the season argument of the get_player_salary tool
    pstPage,           \* the salary page of the player
    pstFilter,         \* the season the tool filters by, as format_season gave it
    pstSalary,         \* the salary frame the tool holds
    pstResult,         \* what the tool returned or raised
    pstPc,             \* "format" | "salary" | "filter" | "return" | "done"
    recNow,            \* datetime.now() at the call, in ticks since midnight of day 0
    recLastNDays,      \* the last_n_days argument
    recGames,          \* the game_date column of the season's games, as day numbers
    recOut,            \* the game_date column of the filtered frame
    recPc,             \* "call" | "done"
    lgsInput,          \* the season_year argument of League(...)
    lgsObj,            \* the League object: season_year and season, or what the constructor raised
    lgsPc,             \* "init" | "done"
    limNow,            \* time(), in ticks
    limLast,           \* rate_limiter._last_call_time
    limPc,             \* where each caller is: "idle" | "check" | "elapsed" | "sleep" | "write" | "raised"
    limCall,           \* per caller, the wait() in progress: when called, ticks slept, when to wake
    limLog,            \* the returns of wait() and the calls of reset(), in order
    srvCalls,          \* the tool call each client issues
    srvLast,           \* rate_limiter._last_call_time, None or some time
    srvPc,             \* where each call is: "call" | "check" | "elapsed" | "write" | "return" | "done"
    srvWaits,          \* per call, the rate_limiter.wait() calls it still has to make
    srvResult,         \* per call, the answer the client got
    synMethod,         \* the League method called
    synInput,          \* its play_type or track_type argument
    synPlay,           \* self.play_type: what check_playtype gave
    synLeft,           \* under 'all', the types the loop has still to visit
    synSent,           \* the types requested upstream so far
    synTwice,          \* the types requested more than once
    synResult,         \* what the method returned or raised
    synPc,             \* "check" | "single" | "loop" | "done"
    detTypes,          \* the table of types the two runs expand 'all' from
    detSameProcess,    \* whether the two runs are in one Python process (one string hash seed)
    detLeft1,          \* the types the first run's loop has still to visit
    detLeft2,          \* the types the second run's loop has still to visit
    detSame,           \* whether the two runs have requested the same types in the same order so far
    detPc,             \* "check" | "loop" | "done"
    tmsUpstream,       \* the season-totals table upstream answers PlayerCareerStats with
    tmsSeasonTotals,   \* the object's season_totals attribute: whether it is set, and its table
    tmsCalls,          \* the number of calls made on the object
    tmsLast,           \* the last call on the object: its method, outcome and the teams it asked for
    glgLog,            \* the game log upstream answers TeamGameLog with
    glgLastN,          \* last_n_games: None or an integer
    glgOpponent,       \* include_opponent_stats
    glgAdvanced,       \* include_advanced_stats
    glgDf,             \* df of get_game_log
    glgLeft,           \* the game ids the advanced-stats loop has still to visit
    glgList,           \* advanced_stats_list
    glgFailed,         \* the per-game requests that raised: game id and the column they fill
    glgPc,             \* "log" | "opponent" | "advanced" | "returned" | "raised"
    ldrVia,            \* "League" for a call of the method, "tool" for a call of the tool
    ldrStat,           \* stat_category
    ldrLimit,          \* limit
    ldrTable,          \* the table upstream answers LeagueDashPlayerStats with
    ldrPc,             \* "start" | "request" | "done"
    ldrResult,         \* the call's outcome and the rows it returned
    sidIn,             \* the season given to format_season_id
    sidOut,            \* format_season_id of the season
    sidOut2,           \* format_season_id of that result
    sidPhase,          \* "input" | "formatted" | "reformatted"
    tblRaw,            \* the column names of the raw table
    tblColumns,        \* the column names of the table being standardized
    tblInjected,       \* the number of metadata columns injected
    tblPhase           \* "raw" | "renamed" | "standardized"

varsCols == <<colRaw, colNorm, colNorm2, colCats, colPhase>>

varsGid == <<gidIn, gidOut, gidBack, gidOut2, gidPhase>>

varsSal == <<salUpstream, salPlain, salStd>>

varsErr == <<errSite, errInput, errOutcome>>

varsCall == <<callOp, callArgs, callPc, callRequests, callStatus>>

varsRate == <<rateClock, rateLastCallTime, rateRemaining, rateStarts, ratePc>>

varsStd == <<stdRaw, stdOut, stdPhase>>

varsVal == <<valTable, valRequired, valRules, valResult, valPhase>>

varsPlr == <<plrPlayer, plrPermode, plrNameMeta, plrSearches, plrObj, plrPc>>

varsRng == <<rngSite, rngInput, rngResult, rngPhase>>

varsPst == <<pstSeason, pstPage, pstFilter, pstSalary, pstResult, pstPc>>

varsRec == <<recNow, recLastNDays, recGames, recOut, recPc>>

varsLgs == <<lgsInput, lgsObj, lgsPc>>

varsLim == <<limNow, limLast, limPc, limCall, limLog>>

varsSrv == <<srvCalls, srvLast, srvPc, srvWaits, srvResult>>

varsSyn ==
    <<synMethod,
      synInput,
      synPlay,
      synLeft,
      synSent,
      synTwice,
      synResult,
      synPc>>

varsDet == <<detTypes, detSameProcess, detLeft1, detLeft2, detSame, detPc>>

varsTms == <<tmsUpstream, tmsSeasonTotals, tmsCalls, tmsLast>>

varsGlg ==
    <<glgLog,
      glgLastN,
      glgOpponent,
      glgAdvanced,
      glgDf,
      glgLeft,
      glgList,
      glgFailed,
      glgPc>>

varsLdr == <<ldrVia, ldrStat, ldrLimit, ldrTable, ldrPc, ldrResult>>

varsSid == <<sidIn, sidOut, sidOut2, sidPhase>>

varsTbl == <<tblRaw, tblColumns, tblInjected, tblPhase>>

vars == <<varsCols, varsGid, varsSal, varsErr, varsCall, varsRate, varsStd, varsVal, varsPlr, varsRng, varsPst, varsRec, varsLgs, varsLim, varsSrv, varsSyn, varsDet, varsTms, varsGlg, varsLdr, varsSid, varsTbl>>

\* What each subsystem leaves alone.
othersCols ==
    <<varsGid,
      varsSal,
      varsErr,
      varsCall,
      varsRate,
      varsStd,
      varsVal,
      varsPlr,
      varsRng,
      varsPst,
      varsRec,
      varsLgs,
      varsLim,
      varsSrv,
      varsSyn,
      varsDet,
      varsTms,
      varsGlg,
      varsLdr,
      varsSid,
      varsTbl>>

othersGid ==
    <<varsCols,
      varsSal,
      varsErr,
      varsCall,
      varsRate,
      varsStd,
      varsVal,
      varsPlr,
      varsRng,
      varsPst,
      varsRec,
      varsLgs,
      varsLim,
      varsSrv,
      varsSyn,
      varsDet,
      varsTms,
      varsGlg,
      varsLdr,
      varsSid,
      varsTbl>>

othersSal ==
    <<varsCols,
      varsGid,
      varsErr,
      varsCall,
      varsRate,
      varsStd,
      varsVal,
      varsPlr,
      varsRng,
      varsPst,
      varsRec,
      varsLgs,
      varsLim,
      varsSrv,
      varsSyn,
      varsDet,
      varsTms,
      varsGlg,
      varsLdr,
      varsSid,
      varsTbl>>

othersErr ==
    <<varsCols,
      varsGid,
      varsSal,
      varsCall,
      varsRate,
      varsStd,
      varsVal,
      varsPlr,
      varsRng,
      varsPst,
      varsRec,
      varsLgs,
      varsLim,
      varsSrv,
      varsSyn,
      varsDet,
      varsTms,
      varsGlg,
      varsLdr,
      varsSid,
      varsTbl>>

othersCall ==
    <<varsCols,
      varsGid,
      varsSal,
      varsErr,
      varsRate,
      varsStd,
      varsVal,
      varsPlr,
      varsRng,
      varsPst,
      varsRec,
      varsLgs,
      varsLim,
      varsSrv,
      varsSyn,
      varsDet,
      varsTms,
      varsGlg,
      varsLdr,
      varsSid,
      varsTbl>>

othersRate ==
    <<varsCols,
      varsGid,
      varsSal,
      varsErr,
      varsCall,
      varsStd,
      varsVal,
      varsPlr,
      varsRng,
      varsPst,
      varsRec,
      varsLgs,
      varsLim,
      varsSrv,
      varsSyn,
      varsDet,
      varsTms,
      varsGlg,
      varsLdr,
      varsSid,
      varsTbl>>

othersStd ==
    <<varsCols,
      varsGid,
      varsSal,
      varsErr,
      varsCall,
      varsRate,
      varsVal,
      varsPlr,
      varsRng,
      varsPst,
      varsRec,
      varsLgs,
      varsLim,
      varsSrv,
      varsSyn,
      varsDet,
      varsTms,
      varsGlg,
      varsLdr,
      varsSid,
      varsTbl>>

othersVal ==
    <<varsCols,
      varsGid,
      varsSal,
      varsErr,
      varsCall,
      varsRate,
      varsStd,
      varsPlr,
      varsRng,
      varsPst,
      varsRec,
      varsLgs,
      varsLim,
      varsSrv,
      varsSyn,
      varsDet,
      varsTms,
      varsGlg,
      varsLdr,
      varsSid,
      varsTbl>>

othersPlr ==
    <<varsCols,
      varsGid,
      varsSal,
      varsErr,
      varsCall,
      varsRate,
      varsStd,
      varsVal,
      varsRng,
      varsPst,
      varsRec,
      varsLgs,
      varsLim,
      varsSrv,
      varsSyn,
      varsDet,
      varsTms,
      varsGlg,
      varsLdr,
      varsSid,
      varsTbl>>

othersRng ==
    <<varsCols,
      varsGid,
      varsSal,
      varsErr,
      varsCall,
      varsRate,
      varsStd,
      varsVal,
      varsPlr,
      varsPst,
      varsRec,
      varsLgs,
      varsLim,
      varsSrv,
      varsSyn,
      varsDet,
      varsTms,
      varsGlg,
      varsLdr,
      varsSid,
      varsTbl>>

othersPst ==
    <<varsCols,
      varsGid,
      varsSal,
      varsErr,
      varsCall,
      varsRate,
      varsStd,
      varsVal,
      varsPlr,
      varsRng,
      varsRec,
      varsLgs,
      varsLim,
      varsSrv,
      varsSyn,
      varsDet,
      varsTms,
      varsGlg,
      varsLdr,
      varsSid,
      varsTbl>>

othersRec ==
    <<varsCols,
      varsGid,
      varsSal,
      varsErr,
      varsCall,
      varsRate,
      varsStd,
      varsVal,
      varsPlr,
      varsRng,
      varsPst,
      varsLgs,
      varsLim,
      varsSrv,
      varsSyn,
      varsDet,
      varsTms,
      varsGlg,
      varsLdr,
      varsSid,
      varsTbl>>

othersLgs ==
    <<varsCols,
      varsGid,
      varsSal,
      varsErr,
      varsCall,
      varsRate,
      varsStd,
      varsVal,
      varsPlr,
      varsRng,
      varsPst,
      varsRec,
      varsLim,
      varsSrv,
      varsSyn,
      varsDet,
      varsTms,
      varsGlg,
      varsLdr,
      varsSid,
      varsTbl>>

othersLim ==
    <<varsCols,
      varsGid,
      varsSal,
      varsErr,
      varsCall,
      varsRate,
      varsStd,
      varsVal,
      varsPlr,
      varsRng,
      varsPst,
      varsRec,
      varsLgs,
      varsSrv,
      varsSyn,
      varsDet,
      varsTms,
      varsGlg,
      varsLdr,
      varsSid,
      varsTbl>>

othersSrv ==
    <<varsCols,
      varsGid,
      varsSal,
      varsErr,
      varsCall,
      varsRate,
      varsStd,
      varsVal,
      varsPlr,
      varsRng,
      varsPst,
      varsRec,
      varsLgs,
      varsLim,
      varsSyn,
      varsDet,
      varsTms,
      varsGlg,
      varsLdr,
      varsSid,
      varsTbl>>

othersSyn ==
    <<varsCols,
      varsGid,
      varsSal,
      varsErr,
      varsCall,
      varsRate,
      varsStd,
      varsVal,
      varsPlr,
      varsRng,
      varsPst,
      varsRec,
      varsLgs,
      varsLim,
      varsSrv,
      varsDet,
      varsTms,
      varsGlg,
      varsLdr,
      varsSid,
      varsTbl>>

othersDet ==
    <<varsCols,
      varsGid,
      varsSal,
      varsErr,
      varsCall,
      varsRate,
      varsStd,
      varsVal,
      varsPlr,
      varsRng,
      varsPst,
      varsRec,
      varsLgs,
      varsLim,
      varsSrv,
      varsSyn,
      varsTms,
      varsGlg,
      varsLdr,
      varsSid,
      varsTbl>>

othersTms ==
    <<varsCols,
      varsGid,
      varsSal,
      varsErr,
      varsCall,
      varsRate,
      varsStd,
      varsVal,
      varsPlr,
      varsRng,
      varsPst,
      varsRec,
      varsLgs,
      varsLim,
      varsSrv,
      varsSyn,
      varsDet,
      varsGlg,
      varsLdr,
      varsSid,
      varsTbl>>

othersGlg ==
    <<varsCols,
      varsGid,
      varsSal,
      varsErr,
      varsCall,
      varsRate,
      varsStd,
      varsVal,
      varsPlr,
      varsRng,
      varsPst,
      varsRec,
      varsLgs,
      varsLim,
      varsSrv,
      varsSyn,
      varsDet,
      varsTms,
      varsLdr,
      varsSid,
      varsTbl>>

othersLdr ==
    <<varsCols,
      varsGid,
      varsSal,
      varsErr,
      varsCall,
      varsRate,
      varsStd,
      varsVal,
      varsPlr,
      varsRng,
      varsPst,
      varsRec,
      varsLgs,
      varsLim,
      varsSrv,
      varsSyn,
      varsDet,
      varsTms,
      varsGlg,
      varsSid,
      varsTbl>>

othersSid ==
    <<varsCols,
      varsGid,
      varsSal,
      varsErr,
      varsCall,
      varsRate,
      varsStd,
      varsVal,
      varsPlr,
      varsRng,
      varsPst,
      varsRec,
      varsLgs,
      varsLim,
      varsSrv,
      varsSyn,
      varsDet,
      varsTms,
      varsGlg,
      varsLdr,
      varsTbl>>

othersTbl ==
    <<varsCols,
      varsGid,
      varsSal,
      varsErr,
      varsCall,
      varsRate,
      varsStd,
      varsVal,
      varsPlr,
      varsRng,
      varsPst,
      varsRec,
      varsLgs,
      varsLim,
      varsSrv,
      varsSyn,
      varsDet,
      varsTms,
      varsGlg,
      varsLdr,
      varsSid>>

(***************************************************************************)
(* Python strings are TLA+ strings; Char(s, i) is s[i - 1].                *)
(***************************************************************************)
MaxCasePos == 2

Char(s, i) == SubSeq(s, i, i)

Tail1(s) == SubSeq(s, 2, Len(s))

LowerOf ==
    [A |-> "a", B |-> "b", C |-> "c", D |-> "d", E |-> "e", F |-> "f",
     G |-> "g", H |-> "h", I |-> "i", J |-> "j", K |-> "k", L |-> "l",
     M |-> "m", N |-> "n", O |-> "o", P |-> "p", Q |-> "q", R |-> "r",
     S |-> "s", T |-> "t", U |-> "u", V |-> "v", W |-> "w", X |-> "x",
     Y |-> "y", Z |-> "z"]

UpperOf ==
    [a |-> "A", b |-> "B", c |-> "C", d |-> "D", e |-> "E", f |-> "F",
     g |-> "G", h |-> "H", i |-> "I", j |-> "J", k |-> "K", l |-> "L",
     m |-> "M", n |-> "N", o |-> "O", p |-> "P", q |-> "Q", r |-> "R",
     s |-> "S", t |-> "T", u |-> "U", v |-> "V", w |-> "W", x |-> "X",
     y |-> "Y", z |-> "Z"]

LowerChar(c) == IF c \in DOMAIN LowerOf THEN LowerOf[c] ELSE c

UpperChar(c) == IF c \in DOMAIN UpperOf THEN UpperOf[c] ELSE c

RECURSIVE Lower(_)
\* str.lower()
Lower(s) == IF s = "" THEN "" ELSE LowerChar(Char(s, 1)) \o Lower(Tail1(s))

RECURSIVE Upper(_)
\* str.upper()
Upper(s) == IF s = "" THEN "" ELSE UpperChar(Char(s, 1)) \o Upper(Tail1(s))

IsLower(s) == s = Lower(s)

RECURSIVE WithCase(_, _, _)
\* The lowercase text s with the characters at the positions in up, counted
\* from position i, written in upper case.
WithCase(s, up, i) ==
    IF s = "" THEN ""
    ELSE (IF i \in up THEN UpperChar(Char(s, 1)) ELSE Char(s, 1))
         \o WithCase(Tail1(s), up, i + 1)

(***************************************************************************)
(* config.py: the field classification registry.                           *)
(***************************************************************************)
INTEGER_COLUMNS ==
    {"age", "games", "games_played", "gp", "w", "l", "wins", "losses",
     "season_year", "draft_year", "draft_round", "draft_number", "fgm", "fga",
     "fg3m", "fg3a", "ftm", "fta", "oreb", "dreb", "reb", "ast", "stl", "blk",
     "tov", "pf", "pts", "plus_minus"}

FLOAT_COLUMNS ==
    {"fg_pct", "fg3_pct", "ft_pct", "min", "minutes", "height_inches",
     "weight", "ts_pct", "efg_pct", "ast_pct", "reb_pct", "usg_pct", "pace",
     "pie"}

STRING_COLUMNS ==
    {"player_name", "team_name", "team_abbreviation", "matchup", "wl",
     "player_first_name", "player_last_name", "position", "college",
     "country"}

ID_FIELDS ==
    {"player_id", "team_id", "game_id", "person_id", "playerid", "teamid",
     "gameid", "personid"}

ID_FIELD_MAPPING_Chained ==
    [gameid |-> "game_id",
     teamid |-> "team_id",
     playerid |-> "player_id",
     person_id |-> "player_id",
     personid |-> "person_id"]

ID_FIELD_MAPPING ==
    [gameid |-> "game_id",
     teamid |-> "team_id",
     playerid |-> "player_id",
     person_id |-> "player_id",
     personid |-> "player_id"]

DATE_FIELDS == {"game_date", "birthdate", "birth_date", "from_year", "to_year"}

MINUTES_SECONDS_FIELDS == {"min", "minutes", "matchupminutes"}

SECONDS_FIELDS == {"seconds", "matchup_seconds", "clock_seconds"}

PLAYOFF_INDICATORS == {"season_type", "season_type_all_star", "is_playoffs"}

HEIGHT_FIELDS_HeightOnly == {"height"}

HEIGHT_FIELDS == {"height", "player_height"}

METADATA_FIELDS == {"standardized_at", "source_endpoint"}

\* The registry: category -> name set.
Registry ==
    [integer |-> INTEGER_COLUMNS,
     float |-> FLOAT_COLUMNS,
     string |-> STRING_COLUMNS,
     id |-> ID_FIELDS,
     date |-> DATE_FIELDS,
     time_duration |-> MINUTES_SECONDS_FIELDS,
     seconds |-> SECONDS_FIELDS,
     playoff_indicator |-> PLAYOFF_INDICATORS,
     height |-> HEIGHT_FIELDS,
     metadata |-> METADATA_FIELDS]

Categories == DOMAIN Registry

RegistryNames == UNION {Registry[c] : c \in Categories}

\* Every category whose name set holds the name.
CategoriesOf(text) == {c \in Categories : text \in Registry[c]}

(***************************************************************************)
(* The column name normaliser: lowercase, then the ID alias map.           *)
(***************************************************************************)
NormalizeColumn(n) ==
    IF Lower(n) \in DOMAIN ID_FIELD_MAPPING
    THEN ID_FIELD_MAPPING[Lower(n)]
    ELSE Lower(n)

\* Column names an upstream table may carry: the registry's names, the
\* aliases, and names the registry does not know.
UnknownColumns == {"jersey", "exp", "off_rating"}

ColumnTexts == RegistryNames \cup DOMAIN ID_FIELD_MAPPING \cup UnknownColumns

\* The casings of a text: any of its first MaxCasePos characters in upper case.
Casings(t) ==
    SUBSET (1..(IF Len(t) < MaxCasePos THEN Len(t) ELSE MaxCasePos))

RawColumns == UNION {{WithCase(t, u, 1) : u \in Casings(t)} : t \in ColumnTexts}

NoName == ""

ColsIdle ==
    /\ colRaw = NoName
    /\ colNorm = NoName
    /\ colNorm2 = NoName
    /\ colCats = {}
    /\ colPhase = "idle"

InitCols ==
    /\ colRaw \in RawColumns
    /\ colNorm = NoName
    /\ colNorm2 = NoName
    /\ colCats = {}
    /\ colPhase = "raw"

Normalize ==
    /\ colPhase = "raw"
    /\ colNorm' = NormalizeColumn(colRaw)
    /\ colPhase' = "normalized"
    /\ UNCHANGED <<colRaw, colNorm2, colCats>>
    /\ UNCHANGED othersCols

Renormalize ==
    /\ colPhase = "normalized"
    /\ colNorm2' = NormalizeColumn(colNorm)
    /\ colPhase' = "renormalized"
    /\ UNCHANGED <<colRaw, colNorm, colCats>>
    /\ UNCHANGED othersCols

Classify ==
    /\ colPhase = "renormalized"
    /\ colCats' = CategoriesOf(colNorm)
    /\ colPhase' = "classified"
    /\ UNCHANGED <<colRaw, colNorm, colNorm2>>
    /\ UNCHANGED othersCols

NextCols == Normalize \/ Renormalize \/ Classify

CanonicalIds == {"player_id", "team_id", "game_id"}

ColNormalized == colPhase \in {"normalized", "renormalized", "classified"}

ColRenormalized == colPhase \in {"renormalized", "classified"}

\* C7: column-name normalisation always yields a lowercase name, leaves a
\* name absent from the alias map as its lowercased self, maps each canonical
\* ID name to itself, and is idempotent: normalising the normalised name
\* returns it unchanged.
C7_NormalizeIdempotent ==
    /\ ColNormalized =>
          /\ IsLower(colNorm)
          /\ (Lower(colRaw) \notin DOMAIN ID_FIELD_MAPPING
                 => colNorm = Lower(colRaw))
          /\ (colRaw \in CanonicalIds => colNorm = colRaw)
    /\ ColRenormalized => colNorm2 = colNorm

\* An aliased, mixed-case raw name ("PErsonid") was normalised twice.
C7_Witness ==
    /\ colPhase = "renormalized"
    /\ colRaw = "PErsonid"
    /\ colNorm = "player_id"

\* C8: every column name of the registry belongs to at most one category.
C8_CategoriesDisjoint ==
    colPhase = "classified" => Cardinality(colCats) <= 1

(***************************************************************************)
(* Integers and their decimal strings.                                     *)
(*                                                                         *)
(* A Python int is unbounded.  A numeric game ID is kept as <<hi, lo>>,    *)
(* the number hi * 10^6 + lo with 0 <= lo < 10^6, so that IDs of up to     *)
(* twelve digits fit.                                                      *)
(***************************************************************************)
Digits == {"0", "1", "2", "3", "4", "5", "6", "7", "8", "9"}

DigitChar == <<"0", "1", "2", "3", "4", "5", "6", "7", "8", "9">>

\* The value of a digit character.
DigitVal(c) == CHOOSE d \in 0..9 : DigitChar[d + 1] = c

\* str.isdigit()
IsDigitStr(s) == s # "" /\ \A i \in 1..Len(s) : Char(s, i) \in Digits

RECURSIVE NatStr(_)
\* str(k) for a natural number k.
NatStr(k) ==
    IF k < 10 THEN DigitChar[k + 1]
    ELSE NatStr(k \div 10) \o DigitChar[(k % 10) + 1]

RECURSIVE NatOf(_, _)
\* int(s) for a string of digits, from the accumulated value acc.
NatOf(s, acc) ==
    IF s = "" THEN acc ELSE NatOf(Tail1(s), acc * 10 + DigitVal(Char(s, 1)))

Base == 10^6

\* The six low digits of a number at least 10^6.
LowDigits(lo) ==
    LET d(i) == DigitChar[((lo \div (10^(6 - i))) % 10) + 1]
    IN  d(1) \o d(2) \o d(3) \o d(4) \o d(5) \o d(6)

\* str(n) for a two-limb int n.
IntToStr(n) ==
    IF n[1] = 0 /\ n[2] < 0 THEN "-" \o NatStr(-n[2])
    ELSE IF n[1] = 0 THEN NatStr(n[2])
    ELSE NatStr(n[1]) \o LowDigits(n[2])

\* One digit more on a two-limb int: n * 10 + d.
ShiftIn(n, d) ==
    LET t == n[2] * 10 + d
    IN  <<n[1] * 10 + (t \div Base), t % Base>>

RECURSIVE ParseFrom(_, _)
ParseFrom(s, acc) ==
    IF s = "" THEN acc
    ELSE ParseFrom(Tail1(s), ShiftIn(acc, DigitVal(Char(s, 1))))

\* int(s) for a string of digits, as a two-limb int.
ParseInt(s) == ParseFrom(s, <<0, 0>>)

(***************************************************************************)
(* Formatter.format_game_id: str(game_id).zfill(10).  A game ID is an int  *)
(* or a str: [kind |-> "int", val |-> <<hi, lo>>] or                       *)
(* [kind |-> "str", val |-> "0021800836"].                                 *)
(***************************************************************************)
GameIdWidth == 10

\* str(x): an int is printed, a str is itself, None reads "None".
PyStr(x) ==
    IF x.kind = "int" THEN IntToStr(x.val)
    ELSE IF x.kind = "none" THEN "None" ELSE x.val

RECURSIVE Zeros(_)
Zeros(k) == IF k <= 0 THEN "" ELSE "0" \o Zeros(k - 1)

\* s.zfill(width) for a string of digits.
ZFill(s, width) == IF Len(s) >= width THEN s ELSE Zeros(width - Len(s)) \o s

\* s[-width:]
LastChars(s, width) ==
    IF Len(s) <= width THEN s ELSE SubSeq(s, Len(s) - width + 1, Len(s))

format_game_id_Truncating(game_id) ==
    LastChars(ZFill(PyStr(game_id), GameIdWidth), GameIdWidth)

format_game_id(game_id) == ZFill(PyStr(game_id), GameIdWidth)

PyInt(n) == [kind |-> "int", val |-> n]

PyString(s) == [kind |-> "str", val |-> s]

PyNone == [kind |-> "none", val |-> ""]

\* The numeric IDs tried: from one digit to twelve digits.
GameIdHigh == {0, 1, 9, 21, 218, 2180, 9999, 10000, 99999, 100000, 999999}

GameIdLow == {0, 1, 7, 10, 99, 836, 1000, 100000, 800836, 999999}

GameIdInts == {<<hi, lo>> : hi \in GameIdHigh, lo \in GameIdLow}

\* The value an ID stands for.
GameIdValue(x) == IF x.kind = "int" THEN x.val ELSE ParseInt(x.val)

GidIdle ==
    /\ gidIn = PyString("")
    /\ gidOut = ""
    /\ gidBack = <<0, 0>>
    /\ gidOut2 = ""
    /\ gidPhase = "idle"

\* Game(game_id): the ID as an int, or as its decimal string.
InitGid ==
    /\ gidIn \in {PyInt(n) : n \in GameIdInts} \cup
                 {PyString(IntToStr(n)) : n \in GameIdInts}
    /\ gidOut = ""
    /\ gidBack = <<0, 0>>
    /\ gidOut2 = ""
    /\ gidPhase = "input"

FormatGameId ==
    /\ gidPhase = "input"
    /\ gidOut' = format_game_id(gidIn)
    /\ gidPhase' = "formatted"
    /\ UNCHANGED <<gidIn, gidBack, gidOut2>>
    /\ UNCHANGED othersGid

ReparseGameId ==
    /\ gidPhase = "formatted"
    /\ gidBack' = ParseInt(gidOut)
    /\ gidPhase' = "reparsed"
    /\ UNCHANGED <<gidIn, gidOut, gidOut2>>
    /\ UNCHANGED othersGid

ReformatGameId ==
    /\ gidPhase = "reparsed"
    /\ gidOut2' = format_game_id(PyString(gidOut))
    /\ gidPhase' = "reformatted"
    /\ UNCHANGED <<gidIn, gidOut, gidBack>>
    /\ UNCHANGED othersGid

NextGid == FormatGameId \/ ReparseGameId \/ ReformatGameId

GidFormatted == gidPhase \in {"formatted", "reparsed", "reformatted"}

\* The digits the ID was given with.
GidDigits == PyStr(gidIn)

\* C6: format_game_id turns a non-negative numeric ID of at most 10 digits
\* into those digits left-padded with "0" to exactly 10 characters, passes a
\* longer one through unchanged, loses no value (int of the result is the
\* ID) and is idempotent.
C6_GameIdPadding ==
    /\ GidFormatted /\ Len(GidDigits) <= GameIdWidth =>
          /\ Len(gidOut) = GameIdWidth
          /\ \A i \in 1..GameIdWidth :
                Char(gidOut, i) =
                    IF i <= GameIdWidth - Len(GidDigits)
                    THEN "0"
                    ELSE Char(GidDigits, i - (GameIdWidth - Len(GidDigits)))
    /\ GidFormatted /\ Len(GidDigits) > GameIdWidth => gidOut = GidDigits
    /\ gidPhase \in {"reparsed", "reformatted"} => gidBack = GameIdValue(gidIn)
    /\ gidPhase = "reformatted" => gidOut2 = gidOut

\* An 8-digit int ID (21800836) was padded, re-parsed and formatted again.
C6_Witness ==
    /\ gidPhase = "reformatted"
    /\ gidIn = PyInt(<<21, 800836>>)
    /\ gidOut = "0021800836"

(***************************************************************************)
(* More of str: strip, split, join, "in".                                  *)
(***************************************************************************)
RECURSIVE LStrip(_)
LStrip(s) == IF s # "" /\ Char(s, 1) = " " THEN LStrip(Tail1(s)) ELSE s

RECURSIVE RStrip(_)
RStrip(s) ==
    IF s # "" /\ Char(s, Len(s)) = " "
    THEN RStrip(SubSeq(s, 1, Len(s) - 1))
    ELSE s

\* str.strip()
Strip(s) == RStrip(LStrip(s))

\* c in s, for a character c
Contains(s, c) == \E i \in 1..Len(s) : Char(s, i) = c

RECURSIVE SplitFrom(_, _, _)
SplitFrom(s, c, cur) ==
    IF s = "" THEN <<cur>>
    ELSE IF Char(s, 1) = c THEN <<cur>> \o SplitFrom(Tail1(s), c, "")
    ELSE SplitFrom(Tail1(s), c, cur \o Char(s, 1))

\* s.split(c)
SplitOn(s, c) == SplitFrom(s, c, "")

\* s.split(): the words between runs of blanks
SplitWords(s) == SelectSeq(SplitOn(s, " "), LAMBDA w : w # "")

RECURSIVE Join(_, _)
\* sep.join(words)
Join(words, sep) ==
    IF Len(words) = 0 THEN ""
    ELSE IF Len(words) = 1 THEN words[1]
    ELSE words[1] \o sep \o Join(Tail(words), sep)

RECURSIVE DigitsOnly(_)
\* re.sub(r"[^\d]", "", s)
DigitsOnly(s) ==
    IF s = "" THEN ""
    ELSE (IF Char(s, 1) \in Digits THEN Char(s, 1) ELSE "") \o
         DigitsOnly(Tail1(s))

(***************************************************************************)
(* A call either returns a value or raises.                                *)
(***************************************************************************)
Ok(v) == [ok |-> TRUE, val |-> v]

Raise(e) == [ok |-> FALSE, val |-> e]

\* int(s) for a str: blanks around the digits are allowed, anything else
\* raises ValueError.
IntOfStr(s) ==
    IF IsDigitStr(Strip(s)) THEN Ok(NatOf(Strip(s), 0))
    ELSE Raise("ValueError")

(***************************************************************************)
(* Formatter.normalize_season_year and Formatter.format_season_id.         *)
(***************************************************************************)
normalize_season_year(season_input) ==
    LET season_str == Strip(PyStr(season_input))
    IN  IF Contains(season_str, "-")
        THEN IntOfStr(SplitOn(season_str, "-")[1])
        ELSE LET year == IntOfStr(season_str)
             IN  IF ~year.ok THEN year
                 ELSE IF year.val < 100
                      THEN IF year.val < 50
                           THEN Ok(year.val + 2000)
                           ELSE Ok(year.val + 1900)
                      ELSE year

\* The faulty variant: the year taken from the season string as a whole.
format_season_id_WholeString(season_input) ==
    LET season_str == Strip(PyStr(season_input))
    IN  IF Len(season_str) = 8 /\ IsDigitStr(season_str)
        THEN Ok(season_str)
        ELSE LET year == normalize_season_year(season_input)
             IN  IF ~year.ok THEN year
                 ELSE Ok(NatStr(year.val) \o NatStr(year.val + 1))

format_season_id(season_input) ==
    LET season_str == Strip(PyStr(season_input))
    IN  IF Len(season_str) = 8 /\ IsDigitStr(season_str)
        THEN Ok(season_str)
        ELSE IF Contains(season_str, "-")
        THEN LET parts == SplitOn(season_str, "-")
                 first_year == normalize_season_year(PyString(parts[1]))
                 second_year ==
                     IF Len(parts[2]) = 2
                     THEN Ok(first_year.val + 1)
                     ELSE IntOfStr(parts[2])
             IN  IF ~first_year.ok THEN first_year
                 ELSE IF ~second_year.ok THEN second_year
                 ELSE Ok(NatStr(first_year.val) \o NatStr(second_year.val))
        ELSE LET year == normalize_season_year(season_input)
             IN  IF ~year.ok THEN year
                 ELSE Ok(NatStr(year.val) \o NatStr(year.val + 1))

(***************************************************************************)
(* Player.get_salary.  A DataFrame is [columns, rows]: the column names    *)
(* and the rows, each row a tuple of cells in column order.  A scraped     *)
(* cell is a str, or None where the row had fewer cells than columns.      *)
(***************************************************************************)
MaxSalRows == 2

SalaryColumns == <<"Season", "Team", "Salary">>

\* Rows of the salary site: plain seasons, the closing "Total" row, an empty
\* season cell, salary cells with no digits, a row with no cells.
SalaryRows ==
    { <<PyString("2023-24"), PyString("LA LakersLakers"), PyString("$1,234")>>,
      <<PyString("2024-25"), PyString("Utah Jazz"), PyString("$47,607")>>,
      <<PyString("2022-23"), PyString("Utah Jazz"), PyString("N/A")>>,
      <<PyString("2021-22"), PyString(""), PyString("")>>,
      <<PyString("Total"), PyString(""), PyString("$48,841")>>,
      <<PyString(""), PyString("Utah Jazz"), PyString("$1,234")>>,
      <<PyNone, PyNone, PyNone>> }

SalaryTables == UNION {[1..n -> SalaryRows] : n \in 0..MaxSalRows}

\* The page has one table, or four of which the third holds the projected
\* and the fourth the historical salaries.
SalaryPages ==
    {[tables |-> 1, rows |-> t, rows2 |-> <<>>] : t \in SalaryTables} \cup
    {[tables |-> 4, rows |-> t[1], rows2 |-> t[2]] :
        t \in {u \in SalaryTables \X SalaryTables :
                   Len(u[1]) + Len(u[2]) <= MaxSalRows}}

EmptyFrame == [columns |-> <<>>, rows |-> <<>>]

HasColumn(df, name) == \E i \in 1..Len(df.columns) : df.columns[i] = name

ColumnIndex(df, name) == CHOOSE i \in 1..Len(df.columns) : df.columns[i] = name

\* df[name] = value
SetColumn(df, name, value) ==
    IF HasColumn(df, name)
    THEN [df EXCEPT !.rows =
            [i \in 1..Len(df.rows) |->
                [df.rows[i] EXCEPT ![ColumnIndex(df, name)] = value]]]
    ELSE [columns |-> Append(df.columns, name),
          rows |-> [i \in 1..Len(df.rows) |-> Append(df.rows[i], value)]]

\* df[name], the cells of a column from the first row to the last
Column(df, name) ==
    [i \in 1..Len(df.rows) |-> df.rows[i][ColumnIndex(df, name)]]

\* df[name] = cells
AssignColumn(df, name, cells) ==
    [df EXCEPT !.rows =
        [i \in 1..Len(df.rows) |->
            [df.rows[i] EXCEPT ![ColumnIndex(df, name)] = cells[i]]]]

\* pd.concat([a, b]) of two frames with the same columns
Concat(a, b) == [columns |-> a.columns, rows |-> a.rows \o b.rows]

\* The frame get_salary builds from the page.
ScrapeSalary(page) ==
    IF page.tables > 1
    THEN LET projected ==
                 SetColumn(SetColumn([columns |-> SalaryColumns,
                                      rows |-> page.rows],
                                     "Team", PyString("Projected")),
                           "Salary_Type", PyString("Projected"))
             historical ==
                 SetColumn([columns |-> SalaryColumns, rows |-> page.rows2],
                           "Salary_Type", PyString("Historical"))
         IN  Concat(projected, historical)
    ELSE [columns |-> SalaryColumns, rows |-> page.rows]

\* self.salary_df["season"].str.lower() != "total"
NotTotal(cell) == cell.kind = "none" \/ Lower(cell.val) # "total"

\* if "season" in columns: the rows that are not the 'Total' row.
FilterTotal(df) ==
    IF HasColumn(df, "season")
    THEN [df EXCEPT !.rows =
            SelectSeq(df.rows,
                      LAMBDA r : NotTotal(r[ColumnIndex(df, "season")]))]
    ELSE df

\* lambda x: Formatter.format_season_id(x) if pd.notna(x) else None
SeasonCell(x) ==
    IF x.kind # "none"
    THEN LET season == format_season_id(x)
         IN  IF season.ok THEN Ok(PyString(season.val)) ELSE season
    ELSE Ok(PyNone)

remove_duplicate_suffix(team_name) ==
    IF team_name.kind = "none" \/ team_name.val = "" THEN team_name
    ELSE LET team_str == Strip(PyStr(team_name))
             words == SplitWords(team_str)
             last_word == words[Len(words)]
             mid == Len(last_word) \div 2
         IN  IF /\ Len(words) >= 2
                /\ Len(last_word) % 2 = 0
                /\ SubSeq(last_word, 1, mid) =
                       SubSeq(last_word, mid + 1, Len(last_word))
             THEN PyString(Join([words EXCEPT ![Len(words)] =
                                     SubSeq(last_word, 1, mid)], " "))
             ELSE PyString(team_str)

clean_salary(salary_value) ==
    IF salary_value.kind = "none" \/ salary_value.val = "" THEN PyNone
    ELSE LET numeric_only == DigitsOnly(PyStr(salary_value))
         IN  IF numeric_only # "" THEN PyInt(ParseInt(numeric_only))
             ELSE PyNone

Returned(df) == [status |-> "returned", error |-> "", df |-> df]

Raised(e) == [status |-> "raised", error |-> e, df |-> EmptyFrame]

NotCalled == [status |-> "not called", error |-> "", df |-> EmptyFrame]

\* self.salary_df.columns = [col.lower() for col in self.salary_df.columns]
LowerColumns(df) ==
    [df EXCEPT !.columns = [i \in 1..Len(df.columns) |-> Lower(df.columns[i])]]

\* Some season cell makes Formatter.format_season_id raise.
SeasonRaises(df) ==
    /\ HasColumn(df, "season")
    /\ \E i \in 1..Len(df.rows) : ~SeasonCell(Column(df, "season")[i]).ok

\* if "season" in columns: the season cells converted
ConvertSeason(df) ==
    IF HasColumn(df, "season")
    THEN AssignColumn(df, "season",
             [i \in 1..Len(df.rows) |->
                 SeasonCell(Column(df, "season")[i]).val])
    ELSE df

\* if "team" in columns: the team cells cleaned
ConvertTeam(df) ==
    IF HasColumn(df, "team")
    THEN AssignColumn(df, "team",
             [i \in 1..Len(df.rows) |->
                 remove_duplicate_suffix(Column(df, "team")[i])])
    ELSE df

\* if "salary" in columns: the salary cells converted
ConvertSalary(df) ==
    IF HasColumn(df, "salary")
    THEN AssignColumn(df, "salary",
             [i \in 1..Len(df.rows) |->
                 clean_salary(Column(df, "salary")[i])])
    ELSE df

\* The standardize branch of get_salary on the scraped frame.
StandardizeSalary(salary_df) ==
    LET kept == FilterTotal(LowerColumns(salary_df))
    IN  IF SeasonRaises(kept) THEN Raised("ValueError")
        ELSE Returned(ConvertSalary(ConvertTeam(ConvertSeason(kept))))

get_salary(page, standardize) ==
    IF standardize THEN StandardizeSalary(ScrapeSalary(page))
    ELSE Returned(ScrapeSalary(page))

SalIdle ==
    /\ salUpstream = [tables |-> 0, rows |-> <<>>, rows2 |-> <<>>]
    /\ salPlain = NotCalled
    /\ salStd = NotCalled

InitSal ==
    /\ salUpstream \in SalaryPages
    /\ salPlain = NotCalled
    /\ salStd = NotCalled

\* player.get_salary(standardize=False)
GetSalaryPlain ==
    /\ salUpstream.tables > 0
    /\ salPlain = NotCalled
    /\ salPlain' = get_salary(salUpstream, FALSE)
    /\ UNCHANGED <<salUpstream, salStd>>
    /\ UNCHANGED othersSal

\* player.get_salary(standardize=True)
GetSalaryStandardized ==
    /\ salUpstream.tables > 0
    /\ salStd = NotCalled
    /\ salStd' = get_salary(salUpstream, TRUE)
    /\ UNCHANGED <<salUpstream, salPlain>>
    /\ UNCHANGED othersSal

NextSal == GetSalaryPlain \/ GetSalaryStandardized

\* C1: get_salary(standardize=True) returns as many rows as
\* get_salary(standardize=False) on the same page, in the same order: row i
\* of the standardized frame is made from row i of the plain frame.
C1_RowsPreserved ==
    salPlain.status = "returned" /\ salStd.status = "returned" =>
        /\ Len(salStd.df.rows) = Len(salPlain.df.rows)
        /\ \A i \in 1..Len(salStd.df.rows) :
              salStd.df.rows[i][ColumnIndex(salStd.df, "salary")] =
                  clean_salary(
                      salPlain.df.rows[i][ColumnIndex(salPlain.df, "Salary")])

\* A season or salary cell of the standardized frame is converted or null.
SeasonConverted(cell) ==
    \/ cell.kind = "none"
    \/ cell.kind = "str" /\ Len(cell.val) = 8 /\ IsDigitStr(cell.val)

SalaryConverted(cell) == cell.kind \in {"none", "int"}

\* C2: get_salary(standardize=True) returns for every salary page, and in
\* the frame it returns every season cell is an 8-digit season ID or null
\* and every salary cell is an int or null.
C2_SalaryNeverRaises ==
    salStd.status # "not called" =>
        /\ salStd.status = "returned"
        /\ \A i \in 1..Len(salStd.df.rows) :
              /\ SeasonConverted(
                     salStd.df.rows[i][ColumnIndex(salStd.df, "season")])
              /\ SalaryConverted(
                     salStd.df.rows[i][ColumnIndex(salStd.df, "salary")])

(***************************************************************************)
(* Rejection of enum-like parameters: the mappings, the checks and the     *)
(* messages of the errors they raise.                                      *)
(***************************************************************************)
VALID_SEASON_TYPES == {"Regular Season", "Playoffs", "Pre Season", "All Star"}

STAT_CATEGORIES ==
    [POINTS |-> "PTS", PTS |-> "PTS", REBOUNDS |-> "REB", REB |-> "REB",
     ASSISTS |-> "AST", AST |-> "AST", STEALS |-> "STL", STL |-> "STL",
     BLOCKS |-> "BLK", BLK |-> "BLK", FIELDGOALPCT |-> "FG_PCT",
     FG_PCT |-> "FG_PCT", FGPCT |-> "FG_PCT", THREEPOINTPCT |-> "FG3_PCT",
     FG3_PCT |-> "FG3_PCT", FG3PCT |-> "FG3_PCT", FREETHROWPCT |-> "FT_PCT",
     FT_PCT |-> "FT_PCT", FTPCT |-> "FT_PCT", FGM |-> "FGM", FGA |-> "FGA",
     FG3M |-> "FG3M", FG3A |-> "FG3A", FTM |-> "FTM", FTA |-> "FTA",
     OREB |-> "OREB", DREB |-> "DREB", TURNOVERS |-> "TOV", TOV |-> "TOV",
     GAMESPLAYED |-> "GP", GP |-> "GP"]

PERMODE ==
    [PERGAME |-> "PerGame", PER36 |-> "Per36", TOTALS |-> "Totals",
     PERMINUTE |-> "PerMinute", PERMIN |-> "PerMinute",
     PERPOSSESSION |-> "Per100Possessions", PERPOSS |-> "Per100Possessions",
     PER100POSSESSIONS |-> "Per100Possessions", PERPLAY |-> "PerPlay",
     PER100PLAYS |-> "Per100Plays"]

PLAYTYPES ==
    [TRANSITION |-> "Transition", ISOLATION |-> "Isolation",
     ISO |-> "Isolation", PRBALLHANDLER |-> "PRBallHandler",
     PRROLLMAN |-> "PRRollman", POSTUP |-> "Postup", SPOTUP |-> "Spotup",
     HANDOFF |-> "Handoff", CUT |-> "Cut", OFFSCREEN |-> "OffScreen",
     PUTBACKS |-> "OffRebound", OFFREBOUND |-> "OffRebound", MISC |-> "Misc"]

TRACKING_TYPES ==
    [SPEEDDISTANCE |-> "SpeedDistance", SPEED |-> "SpeedDistance",
     DISTANCE |-> "SpeedDistance", POSSESSIONS |-> "Possessions",
     CATCHSHOOT |-> "CatchShoot", PULLUPSHOT |-> "PullUpShot",
     PULLUP |-> "PullUpShot", DEFENSE |-> "Defense", DRIVES |-> "Drives",
     DRIVE |-> "Drives", PASSING |-> "Passing", ELBOWTOUCH |-> "ElbowTouch",
     ELBOW |-> "ElbowTouch", POSTTOUCH |-> "PostTouch", POST |-> "PostTouch",
     PAINTTOUCH |-> "PaintTouch", PAINT |-> "PaintTouch",
     EFFICIENCY |-> "Efficiency"]

DEFENSE_TYPES ==
    [OVERALL |-> "Overall", THREE |-> "3 Pointers", THREES |-> "3 Pointers",
     TWOS |-> "2 Pointers", TWO |-> "2 Pointers",
     LESSTHAN6FT |-> "Less Than 6Ft", LESSTHAN10FT |-> "Less Than 10Ft",
     GREATERTHAN15FT |-> "Greater Than 15Ft"]

MeasureTypes_TYPES ==
    [BASE |-> "Base", BASIC |-> "Base", TRADITIONAL |-> "Base",
     ADVANCED |-> "Advanced", ADV |-> "Advanced", MISC |-> "Misc",
     MISCELLANEOUS |-> "Misc", SCORING |-> "Scoring", USAGE |-> "Usage"]

\* set(d.values())
Values(d) == {d[k] : k \in DOMAIN d}

RECURSIVE RemoveChars(_, _)
\* s.replace(c, "") for each character c of cs
RemoveChars(s, cs) ==
    IF s = "" THEN ""
    ELSE (IF Char(s, 1) \in cs THEN "" ELSE Char(s, 1)) \o
         RemoveChars(Tail1(s), cs)

\* sub in s
IsSubstring(sub, s) ==
    \E i \in 0..(Len(s) - Len(sub)) : SubSeq(s, i + 1, i + Len(sub)) = sub

\* The characters of the names, in code point order.
OrdChars ==
    " '-/0123456789ABCDEFGHIJKLMNOPQRSTUVWXYZ_abcdefghijklmnopqrstuvwxyz"

Ord(c) == CHOOSE i \in 1..Len(OrdChars) : Char(OrdChars, i) = c

RECURSIVE StrLess(_, _)
\* a < b for two str
StrLess(a, b) ==
    IF b = "" THEN FALSE
    ELSE IF a = "" THEN TRUE
    ELSE IF Char(a, 1) = Char(b, 1) THEN StrLess(Tail1(a), Tail1(b))
    ELSE Ord(Char(a, 1)) < Ord(Char(b, 1))

Smallest(S) == CHOOSE x \in S : \A y \in S \ {x} : StrLess(x, y)

RECURSIVE Sorted(_)
\* sorted(S) for a set of str
Sorted(S) ==
    IF S = {} THEN <<>> ELSE <<Smallest(S)>> \o Sorted(S \ {Smallest(S)})

\* repr(s) for a str
Repr(s) == "'" \o s \o "'"

\* str(l) for a list of str
ListStr(l) == "[" \o Join([i \in 1..Len(l) |-> Repr(l[i])], ", ") \o "]"

Error(type, message) == [type |-> type, message |-> message]

PyList(S) == [kind |-> "list", val |-> S]

\* Formatter.check_playtype
check_playtype_Keys(play_in, playtypes) ==
    LET play == Upper(RemoveChars(play_in, {"_", "-"}))
    IN  IF play = "ALL" THEN Ok(PyList(DOMAIN playtypes))
        ELSE IF play \notin DOMAIN playtypes
        THEN Raise(Error("ValueError", "Playtype: " \o play \o " not found"))
        ELSE Ok(PyString(playtypes[play]))

check_playtype(play_in, playtypes) ==
    LET play == Upper(RemoveChars(play_in, {"_", "-"}))
    IN  IF play = "ALL" THEN Ok(PyList(Values(playtypes)))
        ELSE IF play \notin DOMAIN playtypes
        THEN Raise(Error("ValueError", "Playtype: " \o play \o " not found"))
        ELSE Ok(PyString(playtypes[play]))

\* PlayTypes.PERMODE[permode.replace("_", "").replace("-", "").upper()]
PermodeLookup(permode) ==
    LET key == Upper(RemoveChars(permode, {"_", "-"}))
    IN  IF key \in DOMAIN PERMODE THEN Ok(PyString(PERMODE[key]))
        ELSE Raise(Error("KeyError", Repr(key)))

\* The per_mode check of the tools.
ToolPermode(per_mode) ==
    LET permode_key == Upper(RemoveChars(per_mode, {"_", "-"}))
    IN  IF permode_key \notin DOMAIN PERMODE
        THEN Raise(Error("ValueError",
                 "Invalid per_mode '" \o per_mode \o "'. Valid: " \o
                 ListStr(Sorted(Values(PERMODE)))))
        ELSE Ok(PyString(PERMODE[permode_key]))

\* The measure_type check of Player.get_career_stats_by_year and
\* Player.get_game_logs.
MeasureTypeCheck(measure_type) ==
    LET measure_key == Upper(RemoveChars(measure_type, {"_", "-", " "}))
    IN  IF measure_key \notin DOMAIN MeasureTypes_TYPES
        THEN Raise(Error("ValueError",
                 "Invalid measure_type '" \o measure_type \o "'. Valid: " \o
                 ListStr(Sorted(Values(MeasureTypes_TYPES)))))
        ELSE Ok(PyString(MeasureTypes_TYPES[measure_key]))

\* Validators.validate_season_type
validate_season_type(season_type) ==
    IF season_type \notin VALID_SEASON_TYPES
    THEN Raise(Error("ValueError",
             "Invalid season_type '" \o season_type \o "'. Valid options: " \o
             ListStr(Sorted(VALID_SEASON_TYPES))))
    ELSE Ok(PyString(season_type))

\* The stat_category check of League.get_league_leaders and of its tool.
StatCategoryCheck(stat_category) ==
    LET stat_key == Upper(RemoveChars(stat_category, {"_", "-", " "}))
    IN  IF stat_key \notin DOMAIN STAT_CATEGORIES
        THEN Raise(Error("ValueError",
                 "Invalid stat_category '" \o stat_category \o "'. Valid: " \o
                 ListStr(Sorted(Values(STAT_CATEGORIES)))))
        ELSE Ok(PyString(STAT_CATEGORIES[stat_key]))

\* The places an enum-like parameter is checked, by the mapping or set each
\* checks against.
PlaytypeSites ==
    [synergy |-> PLAYTYPES, tracking |-> TRACKING_TYPES,
     defense |-> DEFENSE_TYPES]

ConstructorSites == {"Player", "Team", "League"}

ErrSites ==
    DOMAIN PlaytypeSites \cup ConstructorSites \cup
    {"tool per_mode", "measure_type", "season_type", "stat_category"}

\* The valid values of a site.
ValidValues(site) ==
    IF site \in DOMAIN PlaytypeSites THEN Values(PlaytypeSites[site])
    ELSE IF site \in ConstructorSites \cup {"tool per_mode"}
    THEN Values(PERMODE)
    ELSE IF site = "measure_type" THEN Values(MeasureTypes_TYPES)
    ELSE IF site = "season_type" THEN VALID_SEASON_TYPES
    ELSE Values(STAT_CATEGORIES)

\* Parameter values: names the mappings know, in several spellings, and
\* names they do not know.
EnumInputs ==
    {"PerGame", "per_game", "Per-36", "totals", "per_quarter", "PERFOO",
     "Playoffs", "playoffs", "Regular Season", "Summer League",
     "isolation", "pick_and_roll", "ALL", "all", "speed", "Catch-Shoot",
     "overall", "zone", "advanced", "Basic", "hustle", "points", "fg_pct",
     "Three Point Pct", "dunks", ""}

\* What a check gave.
Outcome(result) ==
    IF result.ok
    THEN [status |-> "returned", error |-> "", message |-> ""]
    ELSE [status |-> "raised", error |-> result.val.type,
          message |-> result.val.message]

Unchecked == [status |-> "not called", error |-> "", message |-> ""]

ErrIdle ==
    /\ errSite = ""
    /\ errInput = ""
    /\ errOutcome = Unchecked

InitErr ==
    /\ errSite \in ErrSites
    /\ errInput \in EnumInputs
    /\ errOutcome = Unchecked

\* League.get_synergy_player and the like: Formatter.check_playtype
CheckPlaytype ==
    /\ errSite \in DOMAIN PlaytypeSites
    /\ errOutcome = Unchecked
    /\ errOutcome' = Outcome(check_playtype(errInput, PlaytypeSites[errSite]))
    /\ UNCHANGED <<errSite, errInput>>
    /\ UNCHANGED othersErr

\* Player(...), Team(...), League(...): the permode lookup of __init__
ConstructPermode ==
    /\ errSite \in ConstructorSites
    /\ errOutcome = Unchecked
    /\ errOutcome' = Outcome(PermodeLookup(errInput))
    /\ UNCHANGED <<errSite, errInput>>
    /\ UNCHANGED othersErr

\* A tool given per_mode
CheckToolPermode ==
    /\ errSite = "tool per_mode"
    /\ errOutcome = Unchecked
    /\ errOutcome' = Outcome(ToolPermode(errInput))
    /\ UNCHANGED <<errSite, errInput>>
    /\ UNCHANGED othersErr

CheckMeasureType ==
    /\ errSite = "measure_type"
    /\ errOutcome = Unchecked
    /\ errOutcome' = Outcome(MeasureTypeCheck(errInput))
    /\ UNCHANGED <<errSite, errInput>>
    /\ UNCHANGED othersErr

CheckSeasonType ==
    /\ errSite = "season_type"
    /\ errOutcome = Unchecked
    /\ errOutcome' = Outcome(validate_season_type(errInput))
    /\ UNCHANGED <<errSite, errInput>>
    /\ UNCHANGED othersErr

CheckStatCategory ==
    /\ errSite = "stat_category"
    /\ errOutcome = Unchecked
    /\ errOutcome' = Outcome(StatCategoryCheck(errInput))
    /\ UNCHANGED <<errSite, errInput>>
    /\ UNCHANGED othersErr

NextErr ==
    \/ CheckPlaytype
    \/ ConstructPermode
    \/ CheckToolPermode
    \/ CheckMeasureType
    \/ CheckSeasonType
    \/ CheckStatCategory

\* The message names every valid value of the site.
NamesValidValues(site, message) ==
    \A v \in ValidValues(site) : IsSubstring(Repr(v), message)

\* C3: every rejection of an invalid enum-like parameter raises an error
\* whose message contains the invalid input and names every valid value.
C3_RejectionDescriptive ==
    errOutcome.status = "raised" =>
        /\ IsSubstring(errInput, errOutcome.message)
        /\ NamesValidValues(errSite, errOutcome.message)

(***************************************************************************)
(* Fail fast.  A call runs the steps of its code in order: a check of one  *)
(* argument, which passes or raises, or an upstream HTTP request.          *)
(***************************************************************************)
\* The value of a small Python int.
IntValue(x) == x.val[1] * Base + x.val[2]

SmallInt(n) == PyInt(<<0, n>>)

\* nba_api's static data: the players and the team abbreviations it knows.
KnownPlayers == {"LeBron James", "A'ja Wilson"}

VALID_NBA_TEAM_ABBREVIATIONS == {"MIL", "LAL"}

VALID_WNBA_TEAM_ABBREVIATIONS == {"LVA"}

\* None < 1
NoneCompared ==
    Raise(Error("TypeError",
        "'<' not supported between instances of 'NoneType' and 'int'"))

\* Validators.validate_last_n_games
validate_last_n_games_OffByOne(last_n_games) ==
    IF last_n_games.kind = "none" THEN NoneCompared
    ELSE IF IntValue(last_n_games) < 1 \/ IntValue(last_n_games) >= 82
    THEN Raise(Error("ValueError",
             "last_n_games must be between 1 and 82, got "
             \o PyStr(last_n_games)))
    ELSE Ok(last_n_games)

validate_last_n_games(last_n_games) ==
    IF last_n_games.kind = "none" THEN NoneCompared
    ELSE IF IntValue(last_n_games) < 1 \/ IntValue(last_n_games) > 82
    THEN Raise(Error("ValueError",
             "last_n_games must be between 1 and 82, got "
             \o PyStr(last_n_games)))
    ELSE Ok(last_n_games)

\* Validators.validate_last_n_days
validate_last_n_days(last_n_days) ==
    IF last_n_days.kind = "none" THEN NoneCompared
    ELSE IF IntValue(last_n_days) < 1 \/ IntValue(last_n_days) > 365
    THEN Raise(Error("ValueError",
             "last_n_days must be between 1 and 365, got "
             \o PyStr(last_n_days)))
    ELSE Ok(last_n_days)

\* The last_n_games check of Player.get_game_logs
Player_last_n_games(last_n_games) ==
    IF last_n_games.kind # "none"
       /\ (IntValue(last_n_games) < 1 \/ IntValue(last_n_games) > 82)
    THEN Raise(Error("ValueError",
             "last_n_games must be between 1 and 82, got "
             \o PyStr(last_n_games)))
    ELSE Ok(last_n_games)

\* Validators.validate_limit
validate_limit(limit, min_val, max_val) ==
    ~(IntValue(limit) < min_val \/ IntValue(limit) > max_val)

\* Validators.validate_team_abbreviation with league=None
validate_team_abbreviation(abbreviation) ==
    Upper(abbreviation) \in VALID_NBA_TEAM_ABBREVIATIONS

\* Validators.detect_team_league
detect_team_league(abbreviation) ==
    IF Upper(abbreviation) \in VALID_NBA_TEAM_ABBREVIATIONS THEN "NBA"
    ELSE IF Upper(abbreviation) \in VALID_WNBA_TEAM_ABBREVIATIONS THEN "WNBA"
    ELSE "None"

\* The parameters of League.__init__; a call with any other keyword raises
\* TypeError before the constructor's body runs.
League_parameters == {"season_year", "playoffs", "permode"}

\* Whether the check of a step passes on the value it is given.  None
\* handed to validate_last_n_games raises TypeError at its comparison.
Passes(rule, value) ==
    CASE rule = "last_n_games" -> validate_last_n_games(value).ok
      [] rule = "League keyword" -> value \in League_parameters
      [] rule = "last_n_games or None" -> Player_last_n_games(value).ok
      [] rule = "last_n_days" -> validate_last_n_days(value).ok
      [] rule = "limit 100" -> validate_limit(value, 1, 100)
      [] rule = "limit 500" -> validate_limit(value, 1, 500)
      [] rule = "season_type" -> validate_season_type(value).ok
      [] rule = "per_mode" -> ToolPermode(value).ok
      [] rule = "permode" -> PermodeLookup(value).ok
      [] rule = "measure_type" -> MeasureTypeCheck(value).ok
      [] rule = "stat_category" -> StatCategoryCheck(value).ok
      [] rule = "play_type" -> check_playtype(value, PLAYTYPES).ok
      [] rule = "track_type" -> check_playtype(value, TRACKING_TYPES).ok
      [] rule = "defense_type" -> check_playtype(value, DEFENSE_TYPES).ok
      [] rule = "player" -> value \in KnownPlayers
      [] rule = "team" -> validate_team_abbreviation(value)
      [] rule = "team league" -> detect_team_league(value) # "None"
      [] rule = "season" ->
             value.kind = "none" \/ normalize_season_year(value).ok
      [] rule = "format_season" ->
             value.kind = "none" \/ IntOfStr(PyStr(value)).ok

\* A step that checks the argument named from by the rule.
Check(rule, from) == [kind |-> "check", rule |-> rule, from |-> from]

\* A step that sends requests to the endpoint: one, or one for each type
\* when the argument named from is 'all'.
Request(endpoint, from) == [kind |-> "request", rule |-> endpoint, from |-> from]

\* The constructors: the permode lookup, the static lookup of the player or
\* team, the season.  None of them sends a request.
Player_init(permode, season) ==
    <<Check("permode", permode), Check("player", "player"),
      Check("format_season", season)>>

Team_init(permode, season) ==
    <<Check("permode", permode), Check("team league", "team"),
      Check("season", season)>>

League_init(permode, season) ==
    <<Check("permode", permode), Check("season", season)>>

\* League(season_year=..., playoffs=..., permode=..., league=league), as
\* the tools call the constructor.
League_league(permode, season) ==
    <<Check("League keyword", "league=")>> \o League_init(permode, season)

\* Player.get_game_logs
Player_get_game_logs_RequestFirst ==
    <<Check("last_n_games or None", "last_n_games"),
      Request("PlayerGameLogs", "one"),
      Check("measure_type", "measure_type")>>

Player_get_game_logs ==
    <<Check("last_n_games or None", "last_n_games"),
      Check("measure_type", "measure_type"),
      Request("PlayerGameLogs", "one")>>

\* The steps of each call: of a constructor, of a wrapper method on a built
\* object, of a tool (its own checks, the object it builds, the method it
\* calls).
Steps ==
    [Player |-> Player_init("per_mode", "season"),
     Team |-> Team_init("per_mode", "season"),
     League |-> League_init("per_mode", "season"),
     Player_get_career_stats_by_year |->
         <<Check("measure_type", "measure_type"),
           Request("PlayerDashboardByYearOverYear", "one")>>,
     Player_get_game_logs |-> Player_get_game_logs,
     League_get_league_leaders |->
         <<Check("stat_category", "stat_category"),
           Request("LeagueDashPlayerStats", "one")>>,
     League_get_synergy_player |->
         <<Check("play_type", "play_type"),
           Request("SynergyPlayTypes", "play_type")>>,
     League_get_tracking_player |->
         <<Check("track_type", "track_type"),
           Request("LeagueDashPtStats", "track_type")>>,
     League_get_defense_player |->
         <<Check("defense_type", "defense_type"),
           Request("LeagueDashPtDefend", "defense_type")>>,
     get_player_salary |->
         <<Check("format_season", "season")>> \o
         Player_init("PERGAME", "None") \o <<Request("hoopshype", "one")>>,
     get_player_game_logs |->
         <<Check("last_n_games", "last_n_games"),
           Check("season_type", "season_type"), Check("season", "season"),
           Check("per_mode", "per_mode")>> \o
         Player_init("PERGAME", "normalized season") \o Player_get_game_logs,
     get_player_career_stats |->
         <<Check("season_type", "season_type"),
           Check("per_mode", "per_mode")>> \o
         Player_init("PERGAME", "None") \o
         <<Check("measure_type", "measure_type"),
           Request("PlayerDashboardByYearOverYear", "one")>>,
     get_player_play_type_stats |->
         <<Check("season_type", "season_type"), Check("season", "season"),
           Check("per_mode", "per_mode")>> \o
         League_league("normalized per_mode", "normalized season") \o
         <<Check("play_type", "play_type"),
           Request("SynergyPlayTypes", "play_type")>>,
     get_player_tracking_stats |->
         <<Check("season_type", "season_type"), Check("season", "season"),
           Check("per_mode", "per_mode")>> \o
         League_league("normalized per_mode", "normalized season") \o
         <<Check("track_type", "track_type"),
           Request("LeagueDashPtStats", "track_type")>>,
     get_league_leaders |->
         <<Check("season_type", "season_type"),
           Check("limit 100", "limit")>> \o
         League_league("per_mode", "season") \o
         <<Check("stat_category", "stat_category"),
           Request("LeagueDashPlayerStats", "one")>>,
     get_league_player_stats |->
         <<Check("season_type", "season_type"),
           Check("limit 500", "limit")>> \o
         League_league("per_mode", "season") \o
         <<Request("LeagueDashPlayerStats", "one")>>,
     get_recent_games_summary |->
         <<Check("last_n_days", "last_n_days"),
           Check("season_type", "season_type"), Check("season", "season")>> \o
         League_league("PERGAME", "normalized season") \o
         <<Request("LeagueGameLog", "one")>>,
     get_team_recent_games |->
         <<Check("team", "team"), Check("last_n_games", "last_n_games"),
           Check("season_type", "season_type"), Check("season", "season")>> \o
         Team_init("PERGAME", "normalized season") \o
         <<Request("TeamGameLog", "one")>>,
     get_team_roster |->
         <<Check("team", "team"), Check("season", "season")>> \o
         Team_init("PERGAME", "normalized season") \o
         <<Request("CommonTeamRoster", "one")>>]

\* The values tried for each argument, the default first.
ArgValues ==
    [player |-> <<"LeBron James", "Nobody">>,
     team |-> <<"MIL", "lva", "XXX">>,
     last_n_games |-> <<SmallInt(10), PyNone, SmallInt(0), SmallInt(1),
                        SmallInt(82), SmallInt(83)>>,
     last_n_days |-> <<SmallInt(7), SmallInt(0), SmallInt(365),
                       SmallInt(366)>>,
     limit |-> <<SmallInt(25), SmallInt(0), SmallInt(100), SmallInt(101),
                 SmallInt(500), SmallInt(501)>>,
     season |-> <<PyNone, PyString("2023-24"), PyString("next")>>,
     season_type |-> <<"Regular Season", "Summer League">>,
     per_mode |-> <<"PerGame", "Totals", "Per48", "per_100_possessions",
                    "per_quarter">>,
     measure_type |-> <<"Base", "hustle">>,
     stat_category |-> <<"points", "dunks">>,
     play_type |-> <<"Transition", "all", "zone">>,
     track_type |-> <<"Efficiency", "all", "zone">>,
     defense_type |-> <<"Overall", "zone">>]

\* The arguments a call takes.
ArgsUsed(op) ==
    {IF Steps[op][i].from = "normalized per_mode" THEN "per_mode"
     ELSE IF Steps[op][i].from = "normalized season" THEN "season"
     ELSE Steps[op][i].from : i \in 1..Len(Steps[op])}

\* The value a step works on.
StepValue(from, args) ==
    CASE from = "PERGAME" -> "PERGAME"
      [] from = "league=" -> "league"
      [] from = "None" -> PyNone
      [] from = "normalized per_mode" -> ToolPermode(args.per_mode).val.val
      [] from = "normalized season" ->
             IF args.season.kind = "none" THEN PyNone
             ELSE PyString(NatStr(normalize_season_year(args.season).val))
      [] OTHER -> args[from]

\* The requests a request step sends.
RequestCount(step, args) ==
    CASE step.from = "one" -> 1
      [] step.from = "play_type" ->
             LET play == check_playtype(args.play_type, PLAYTYPES).val
             IN  IF play.kind = "list" THEN Cardinality(play.val) ELSE 1
      [] step.from = "track_type" ->
             LET play == check_playtype(args.track_type, TRACKING_TYPES).val
             IN  IF play.kind = "list" THEN Cardinality(play.val) ELSE 1
      [] step.from = "defense_type" ->
             LET play == check_playtype(args.defense_type, DEFENSE_TYPES).val
             IN  IF play.kind = "list" THEN Cardinality(play.val) ELSE 1

CallIdle ==
    /\ callOp = ""
    /\ callArgs = [a \in DOMAIN ArgValues |-> ArgValues[a][1]]
    /\ callPc = 0
    /\ callRequests = 0
    /\ callStatus = "idle"

\* The values an argument of a call may have: any of those tried if the
\* call takes the argument, its default otherwise.
ArgChoices(op, a) ==
    IF a \in ArgsUsed(op)
    THEN {ArgValues[a][i] : i \in 1..Len(ArgValues[a])}
    ELSE {ArgValues[a][1]}

InitCall ==
    /\ callOp \in DOMAIN Steps
    /\ callArgs \in
          [player : ArgChoices(callOp, "player"),
           team : ArgChoices(callOp, "team"),
           last_n_games : ArgChoices(callOp, "last_n_games"),
           last_n_days : ArgChoices(callOp, "last_n_days"),
           limit : ArgChoices(callOp, "limit"),
           season : ArgChoices(callOp, "season"),
           season_type : ArgChoices(callOp, "season_type"),
           per_mode : ArgChoices(callOp, "per_mode"),
           measure_type : ArgChoices(callOp, "measure_type"),
           stat_category : ArgChoices(callOp, "stat_category"),
           play_type : ArgChoices(callOp, "play_type"),
           track_type : ArgChoices(callOp, "track_type"),
           defense_type : ArgChoices(callOp, "defense_type")]
    /\ callPc = 1
    /\ callRequests = 0
    /\ callStatus = "running"

\* The step to run next.
CallStep == Steps[callOp][callPc]

\* A check: it passes, or it raises and the call is over.
CallCheck ==
    /\ callStatus = "running"
    /\ callPc <= Len(Steps[callOp])
    /\ CallStep.kind = "check"
    /\ IF Passes(CallStep.rule, StepValue(CallStep.from, callArgs))
       THEN callPc' = callPc + 1 /\ callStatus' = callStatus
       ELSE callPc' = callPc /\ callStatus' = "rejected"
    /\ UNCHANGED <<callOp, callArgs, callRequests>>
    /\ UNCHANGED othersCall

\* An upstream request (one for each type under 'all').
CallRequest ==
    /\ callStatus = "running"
    /\ callPc <= Len(Steps[callOp])
    /\ CallStep.kind = "request"
    /\ callRequests' = callRequests + RequestCount(CallStep, callArgs)
    /\ callPc' = callPc + 1
    /\ UNCHANGED <<callOp, callArgs, callStatus>>
    /\ UNCHANGED othersCall

CallReturn ==
    /\ callStatus = "running"
    /\ callPc > Len(Steps[callOp])
    /\ callStatus' = "returned"
    /\ UNCHANGED <<callOp, callArgs, callPc, callRequests>>
    /\ UNCHANGED othersCall

NextCall == CallCheck \/ CallRequest \/ CallReturn

C13_TeamToolsDetectLeague ==
    (/\ callOp \in {"get_team_recent_games", "get_team_roster"}
     /\ detect_team_league(callArgs.team) # "None") =>
        ~(callStatus = "rejected" /\ CallStep = Check("team", "team"))

\* C18: a season query of get_league_leaders with a per_mode its
\* documentation lists, and every other argument valid, is not rejected
\* and sends its request.
C18_DocumentedPerModes ==
    (/\ callOp = "get_league_leaders"
     /\ callArgs.per_mode \in {"PerGame", "Totals", "Per48"}
     /\ callArgs.season_type = "Regular Season"
     /\ callArgs.limit \in {SmallInt(25), SmallInt(100)}
     /\ callArgs.stat_category = "points"
     /\ callArgs.season \in {PyNone, PyString("2023-24")}
     /\ callStatus # "running") =>
        callStatus = "returned" /\ callRequests = 1

\* C18, for the constructor alone: League(permode=...) takes every per_mode
\* the tool documents.
C18_LeagueTakesPerModes ==
    (/\ callOp = "League"
     /\ callArgs.per_mode \in {"PerGame", "Totals", "Per48"}) =>
        ~(callStatus = "rejected" /\ CallStep = Check("permode", "per_mode"))

(***************************************************************************)
(* The rate limiter and the bursty loops that use it.  Time is counted in  *)
(* ticks, TicksPerSecond of them to the second.  Each loop iteration       *)
(* issues one request, which takes any time up to MaxRequestTicks, and     *)
(* then calls rate_limiter.wait().                                         *)
(***************************************************************************)
TicksPerSecond == 4

MaxRequestTicks == 5

MaxBurst == 3

MaxIdleTicks == 6

\* RateLimiter.__init__: 1.0 / calls_per_second, with calls_per_second 1.0.
min_interval == TicksPerSecond

PyFloat(t) == [kind |-> "float", val |-> t]

\* RateLimiter.wait: the time at which it returns when called at time now
\* with _last_call_time = last; it sleeps only if there was an earlier call
\* less than min_interval ago.
wait(last, now) ==
    IF last.kind # "none" /\ now - last.val < min_interval
    THEN now + (min_interval - (now - last.val))
    ELSE now

RateIdle ==
    /\ rateClock = 0
    /\ rateLastCallTime = PyNone
    /\ rateRemaining = 0
    /\ rateStarts = <<>>
    /\ ratePc = "idle"

\* A burst of at least two requests starts with the limiter never used (or
\* reset), or last used at time 0, any time up to MaxIdleTicks ago.
InitRate ==
    /\ rateClock \in 0..MaxIdleTicks
    /\ rateLastCallTime \in {PyNone, PyFloat(0)}
    /\ rateRemaining \in 2..MaxBurst
    /\ rateStarts = <<>>
    /\ ratePc = "request"

\* The loop body's request: issued now, answered (or failed) took ticks
\* later.
IssueRequest ==
    /\ ratePc = "request"
    /\ \E took \in 0..MaxRequestTicks : rateClock' = rateClock + took
    /\ rateStarts' = Append(rateStarts, rateClock)
    /\ ratePc' = "wait"
    /\ UNCHANGED <<rateLastCallTime, rateRemaining>>
    /\ UNCHANGED othersRate

\* The loop body's rate_limiter.wait(), and the loop's next iteration or
\* its end.
Wait ==
    /\ ratePc = "wait"
    /\ rateClock' = wait(rateLastCallTime, rateClock)
    /\ rateLastCallTime' = PyFloat(rateClock')
    /\ rateRemaining' = rateRemaining - 1
    /\ ratePc' = IF rateRemaining' > 0 THEN "request" ELSE "done"
    /\ UNCHANGED rateStarts
    /\ UNCHANGED othersRate

NextRate == IssueRequest \/ Wait

\* C5: in a burst, any two consecutive requests are issued at least
\* min_interval apart, whatever state the limiter was in when the burst
\* started.
C5_RequestsSpaced ==
    \A i \in 2..Len(rateStarts) :
        rateStarts[i] - rateStarts[i - 1] >= min_interval

(***************************************************************************)
(* standardize_dataframe(table, data_type), called with season and         *)
(* playoffs left at None and no metadata requested: every column renamed   *)
(* by the column name normaliser, then every cell converted by the         *)
(* transformer of its column's category.  data_type does not change        *)
(* either step.                                                            *)
(***************************************************************************)
MaxStdRows == 2

\* The height transformer: "F-I" split on "-", feet*12 + inches; anything
\* else becomes null.
HeightToInches(cell) ==
    IF /\ cell.kind = "str"
       /\ Len(SplitOn(cell.val, "-")) = 2
       /\ \A k \in 1..2 : IsDigitStr(SplitOn(cell.val, "-")[k])
    THEN SmallInt(NatOf(SplitOn(cell.val, "-")[1], 0) * 12
                  + NatOf(SplitOn(cell.val, "-")[2], 0))
    ELSE PyNone

\* The transformer of a column's category applied to one cell.  Cells of
\* the other categories are drawn in canonical form already and stay as
\* they are.
TransformCell(column, cell) ==
    IF column \in HEIGHT_FIELDS THEN HeightToInches(cell)
    ELSE IF column \in ID_FIELDS /\ cell.kind # "none"
    THEN PyString(ZFill(PyStr(cell), 10))
    ELSE cell

standardize_dataframe(df) ==
    [columns |-> [j \in 1..Len(df.columns) |-> NormalizeColumn(df.columns[j])],
     rows |->
        [i \in 1..Len(df.rows) |->
            [j \in 1..Len(df.columns) |->
                TransformCell(NormalizeColumn(df.columns[j]),
                              df.rows[i][j])]]]

\* The raw tables tried: their columns, and for each column the cells an
\* upstream response may carry there.
RawSchemas ==
    {<<"HEIGHT">>, <<"PLAYER_ID", "HEIGHT">>, <<"Player_Height", "PTS">>,
     <<"player_height">>}

HeightCells ==
    {PyString("6-11"), PyString("7-0"), PyString("6"), PyString("6-"),
     PyString("six-two"), PyString("6-11-2"), PyNone, SmallInt(83)}

RawCells(column) ==
    IF Lower(column) \in {"height", "player_height"} THEN HeightCells
    ELSE IF Lower(column) = "player_id"
    THEN {SmallInt(203507), PyString("0000002544")}
    ELSE {PyFloat(25)}

RawRows(columns) ==
    {r \in [1..Len(columns) ->
                UNION {RawCells(columns[j]) : j \in 1..Len(columns)}] :
        \A j \in 1..Len(columns) : r[j] \in RawCells(columns[j])}

RawTables ==
    {[columns |-> c, rows |-> rs] :
        c \in RawSchemas, rs \in {<<>>}}
    \cup UNION {UNION {{[columns |-> c, rows |-> rs] :
                            rs \in [1..n -> RawRows(c)]} :
                       n \in 1..MaxStdRows} : c \in RawSchemas}

StdIdle ==
    /\ stdRaw = EmptyFrame
    /\ stdOut = EmptyFrame
    /\ stdPhase = "idle"

InitStd ==
    /\ stdRaw \in RawTables
    /\ stdOut = EmptyFrame
    /\ stdPhase = "raw"

Standardize ==
    /\ stdPhase = "raw"
    /\ stdOut' = standardize_dataframe(stdRaw)
    /\ stdPhase' = "standardized"
    /\ UNCHANGED stdRaw
    /\ UNCHANGED othersStd

NextStd == Standardize

\* Column j of the standardized table is a height column.
IsHeightColumn(j) == stdOut.columns[j] \in {"height", "player_height"}

\* The well-formed feet-inches texts, each with its total of inches.
FeetInches ==
    {<<NatStr(f) \o "-" \o NatStr(n), f * 12 + n>> : f \in 0..9, n \in 0..11}

MaxValRows == 2

\* The errors: "missing column: X" for each required column X not in the
\* table.
MissingColumns(table, required_columns) ==
    {"missing column: " \o c :
        c \in {x \in required_columns : ~HasColumn(table, x)}}

\* The warnings: one for each row whose value in a ruled column is present,
\* non-null and outside [min, max].
OutOfRange(table, range_rules) ==
    {[column |-> p[1].column, row |-> p[2]] :
        p \in {q \in range_rules \X (1..Len(table.rows)) :
                 /\ HasColumn(table, q[1].column)
                 /\ Column(table, q[1].column)[q[2]].kind # "none"
                 /\ \/ Column(table, q[1].column)[q[2]].val < q[1].min
                    \/ Column(table, q[1].column)[q[2]].val > q[1].max}}

validate_dataframe_WarningsFail(table, required_columns, range_rules) ==
    [passed |-> /\ MissingColumns(table, required_columns) = {}
                /\ OutOfRange(table, range_rules) = {},
     errors |-> MissingColumns(table, required_columns),
     warnings |-> OutOfRange(table, range_rules)]

validate_dataframe(table, required_columns, range_rules) ==
    [passed |-> MissingColumns(table, required_columns) = {},
     errors |-> MissingColumns(table, required_columns),
     warnings |-> OutOfRange(table, range_rules)]

\* The tables, required columns and range rules tried; the rules are those
\* of the standardization example and one for a column no table has.
ValSchemas ==
    {<<"player_id", "team_id", "pts">>, <<"player_id", "pts">>, <<"pts">>,
     <<"player_id", "team_id">>}

ValCells(column) ==
    IF column = "pts"
    THEN {PyNone, PyFloat(-1), PyFloat(0), PyFloat(100), PyFloat(101)}
    ELSE {PyString("0000203507")}

ValRows(columns) ==
    {r \in [1..Len(columns) ->
                UNION {ValCells(columns[j]) : j \in 1..Len(columns)}] :
        \A j \in 1..Len(columns) : r[j] \in ValCells(columns[j])}

ValTables ==
    UNION {UNION {{[columns |-> c, rows |-> rs] :
                      rs \in [1..n -> ValRows(c)]} :
                  n \in 0..MaxValRows} : c \in ValSchemas}

RequiredColumns ==
    {{}, {"player_id"}, {"player_id", "team_id"}, {"pts", "min"}}

RangeRules ==
    {{}, {[column |-> "pts", min |-> 0, max |-> 100]},
     {[column |-> "pts", min |-> 0, max |-> 100],
      [column |-> "min", min |-> 0, max |-> 48]}}

NoResult == [passed |-> FALSE, errors |-> {}, warnings |-> {}]

ValIdle ==
    /\ valTable = EmptyFrame
    /\ valRequired = {}
    /\ valRules = {}
    /\ valResult = NoResult
    /\ valPhase = "idle"

InitVal ==
    /\ valTable \in ValTables
    /\ valRequired \in RequiredColumns
    /\ valRules \in RangeRules
    /\ valResult = NoResult
    /\ valPhase = "table"

Validate ==
    /\ valPhase = "table"
    /\ valResult' = validate_dataframe(valTable, valRequired, valRules)
    /\ valPhase' = "validated"
    /\ UNCHANGED <<valTable, valRequired, valRules>>
    /\ UNCHANGED othersVal

NextVal == Validate

\* The required columns the validated table does not have.
Absent == {c \in valRequired : \A j \in 1..Len(valTable.columns) :
                                   valTable.columns[j] # c}

\* The cells of the validated table that break a range rule: row i, column
\* j, rule r.
Offending ==
    {t \in (1..Len(valTable.rows)) \X (1..Len(valTable.columns)) \X valRules :
        /\ valTable.columns[t[2]] = t[3].column
        /\ valTable.rows[t[1]][t[2]] # PyNone
        /\ ~(t[3].min <= valTable.rows[t[1]][t[2]].val
             /\ valTable.rows[t[1]][t[2]].val <= t[3].max)}

\* C10: the result of validate_dataframe has passed true exactly when
\* errors is empty; errors has exactly one entry for each required column
\* the table lacks; warnings has one entry for each non-null value outside
\* its inclusive range; and passed is decided by the required columns
\* alone, whatever the warnings.
C10_ValidationResult ==
    valPhase = "validated" =>
        /\ valResult.passed <=> valResult.errors = {}
        /\ Cardinality(valResult.errors) = Cardinality(Absent)
        /\ \A c \in Absent :
               Cardinality({e \in valResult.errors : IsSubstring(c, e)}) = 1
        /\ Cardinality(valResult.warnings) = Cardinality(Offending)
        /\ valResult.passed <=> Absent = {}

\* A table with both required columns and the points 101 and -1 outside
\* (0, 100) passed with two warnings and no error.
C10_Witness ==
    /\ valPhase = "validated"
    /\ valRequired = {"player_id", "team_id"}
    /\ valTable.columns = <<"player_id", "team_id", "pts">>
    /\ Len(valTable.rows) = 2
    /\ valTable.rows[1][3] = PyFloat(101)
    /\ valTable.rows[2][3] = PyFloat(-1)
    /\ valResult.passed
    /\ valResult.errors = {}
    /\ Cardinality(valResult.warnings) = 2

(***************************************************************************)
(* Player.__init__: the permode lookup, then the player looked up in       *)
(* nba_api's static data, by ID first and by full name if no ID matches.   *)
(* The lookups match text without regard to case; the ID as a whole, the   *)
(* name anywhere in the full name.                                         *)
(***************************************************************************)
\* nba_api.stats.static.players: the static player list, in its order.
players ==
    <<[id |-> 2544, full_name |-> "LeBron James", first_name |-> "LeBron",
       last_name |-> "James", is_active |-> TRUE],
      [id |-> 201935, full_name |-> "James Harden", first_name |-> "James",
       last_name |-> "Harden", is_active |-> TRUE],
      [id |-> 893, full_name |-> "Michael Jordan", first_name |-> "Michael",
       last_name |-> "Jordan", is_active |-> FALSE]>>

\* players.find_player_by_id(player), as a list of no or one match
find_player_by_id(player) ==
    SelectSeq(players, LAMBDA m : Lower(NatStr(m.id)) = Lower(player))

\* players.find_players_by_full_name(player)
find_players_by_full_name(player) ==
    SelectSeq(players, LAMBDA m : IsSubstring(Lower(player), Lower(m.full_name)))

NoPlayer ==
    [status |-> "none", error |-> "", message |-> "", warned |-> FALSE,
     id |-> 0, name |-> "", first_name |-> "", last_name |-> "",
     is_active |-> FALSE]

\* The attributes Player.__init__ sets from name_meta.
Player_attrs_LastMatch(name_meta) ==
    [NoPlayer EXCEPT !.status = "built",
                     !.warned = Len(name_meta) > 1,
                     !.id = name_meta[Len(name_meta)].id,
                     !.name = name_meta[1].full_name,
                     !.first_name = name_meta[1].first_name,
                     !.last_name = name_meta[1].last_name,
                     !.is_active = name_meta[1].is_active]

Player_attrs(name_meta) ==
    [NoPlayer EXCEPT !.status = "built",
                     !.warned = Len(name_meta) > 1,
                     !.id = name_meta[1].id,
                     !.name = name_meta[1].full_name,
                     !.first_name = name_meta[1].first_name,
                     !.last_name = name_meta[1].last_name,
                     !.is_active = name_meta[1].is_active]

PlayerRaised(type, message) ==
    [NoPlayer EXCEPT !.status = "raised", !.error = type,
                     !.message = message]

\* The player arguments and permodes tried.
PlayerKeys ==
    {"2544", "893", "9999", "25", "LeBron James", "lebron james", "LEBRON",
     "James", "JAMES", "jordan", "Harden", "Invalid Player Name XYZ", "",
     "Jame"}

PlayerPermodes == {"PERGAME", "per_game", "per_quarter"}

PlrIdle ==
    /\ plrPlayer = ""
    /\ plrPermode = ""
    /\ plrNameMeta = <<>>
    /\ plrSearches = <<>>
    /\ plrObj = NoPlayer
    /\ plrPc = "idle"

InitPlr ==
    /\ plrPlayer \in PlayerKeys
    /\ plrPermode \in PlayerPermodes
    /\ plrNameMeta = <<>>
    /\ plrSearches = <<>>
    /\ plrObj = NoPlayer
    /\ plrPc = "permode"

\* self.permode = PlayTypes.PERMODE[...]
PlayerPermode ==
    /\ plrPc = "permode"
    /\ IF PermodeLookup(plrPermode).ok
       THEN plrPc' = "by_id" /\ plrObj' = plrObj
       ELSE /\ plrPc' = "done"
            /\ plrObj' = PlayerRaised("KeyError",
                                      PermodeLookup(plrPermode).val.message)
    /\ UNCHANGED <<plrPlayer, plrPermode, plrNameMeta, plrSearches>>
    /\ UNCHANGED othersPlr

\* self.name_meta = players.find_player_by_id(player)
PlayerFindById ==
    /\ plrPc = "by_id"
    /\ plrNameMeta' = find_player_by_id(plrPlayer)
    /\ plrSearches' = Append(plrSearches, "id")
    /\ plrPc' = IF plrNameMeta' # <<>> THEN "select" ELSE "by_name"
    /\ UNCHANGED <<plrPlayer, plrPermode, plrObj>>
    /\ UNCHANGED othersPlr

\* else: self.name_meta = players.find_players_by_full_name(player)
PlayerFindByFullName ==
    /\ plrPc = "by_name"
    /\ plrNameMeta' = find_players_by_full_name(plrPlayer)
    /\ plrSearches' = Append(plrSearches, "full_name")
    /\ plrPc' = "select"
    /\ UNCHANGED <<plrPlayer, plrPermode, plrObj>>
    /\ UNCHANGED othersPlr

\* The ValueError for no match, or the attributes from the first match.
PlayerSelect ==
    /\ plrPc = "select"
    /\ plrObj' = IF plrNameMeta = <<>>
                 THEN PlayerRaised("ValueError", plrPlayer \o " not found")
                 ELSE Player_attrs(plrNameMeta)
    /\ plrPc' = "done"
    /\ UNCHANGED <<plrPlayer, plrPermode, plrNameMeta, plrSearches>>
    /\ UNCHANGED othersPlr

NextPlr ==
    PlayerPermode \/ PlayerFindById \/ PlayerFindByFullName \/ PlayerSelect

\* The positions in the static list of the players the argument matches as
\* an ID, and as part of a full name.
IdMatches ==
    {k \in 1..Len(players) : Lower(NatStr(players[k].id)) = Lower(plrPlayer)}

NameMatches ==
    {k \in 1..Len(players) :
        IsSubstring(Lower(plrPlayer), Lower(players[k].full_name))}

\* The first of a non-empty set of positions.
FirstMatch ==
    IF IdMatches # {} THEN CHOOSE k \in IdMatches : \A j \in IdMatches : k <= j
    ELSE CHOOSE k \in NameMatches : \A j \in NameMatches : k <= j

\* C11: Player(player) looks the argument up as an ID first and as a full
\* name only if no ID matched; with no match it raises ValueError naming
\* the argument and 'not found'; with one or several matches it builds the
\* player from the first match, all five attributes from that same match.
C11_PlayerLookup ==
    (plrPc = "done" /\ PermodeLookup(plrPermode).ok) =>
        /\ plrSearches = IF IdMatches # {} THEN <<"id">>
                         ELSE <<"id", "full_name">>
        /\ (IdMatches \cup NameMatches = {}) =>
               /\ plrObj.status = "raised"
               /\ plrObj.error = "ValueError"
               /\ IsSubstring(plrPlayer, plrObj.message)
               /\ IsSubstring("not found", plrObj.message)
        /\ (IdMatches \cup NameMatches # {}) =>
               /\ plrObj.status = "built"
               /\ plrObj.id = players[FirstMatch].id
               /\ plrObj.name = players[FirstMatch].full_name
               /\ plrObj.first_name = players[FirstMatch].first_name
               /\ plrObj.last_name = players[FirstMatch].last_name
               /\ plrObj.is_active = players[FirstMatch].is_active

\* 'James' is no ID and part of two full names: the player built is the
\* first of them, LeBron James, with the warning logged.
C11_Witness ==
    /\ plrPc = "done"
    /\ plrPlayer = "James"
    /\ plrSearches = <<"id", "full_name">>
    /\ Len(plrNameMeta) = 2
    /\ plrObj.status = "built"
    /\ plrObj.warned
    /\ plrObj.id = 2544
    /\ plrObj.name = "LeBron James"

(***************************************************************************)
(* The range checks of last_n_games and last_n_days.                       *)
(***************************************************************************)
MaxOver == 5

RangeSites ==
    {"Validators.validate_last_n_games", "Validators.validate_last_n_days",
     "Player.get_game_logs"}

RngIdle ==
    /\ rngSite = ""
    /\ rngInput = PyNone
    /\ rngResult = Ok(PyNone)
    /\ rngPhase = "idle"

\* Integers from below the ranges to above them, and None.
InitRng ==
    /\ rngSite \in RangeSites
    /\ rngInput \in {SmallInt(n) : n \in (-MaxOver)..(365 + MaxOver)}
                    \cup {PyNone}
    /\ rngResult = Ok(PyNone)
    /\ rngPhase = "input"

ValidateLastNGames ==
    /\ rngPhase = "input"
    /\ rngSite = "Validators.validate_last_n_games"
    /\ rngResult' = validate_last_n_games(rngInput)
    /\ rngPhase' = "checked"
    /\ UNCHANGED <<rngSite, rngInput>>
    /\ UNCHANGED othersRng

ValidateLastNDays ==
    /\ rngPhase = "input"
    /\ rngSite = "Validators.validate_last_n_days"
    /\ rngResult' = validate_last_n_days(rngInput)
    /\ rngPhase' = "checked"
    /\ UNCHANGED <<rngSite, rngInput>>
    /\ UNCHANGED othersRng

GetGameLogsLastNGames ==
    /\ rngPhase = "input"
    /\ rngSite = "Player.get_game_logs"
    /\ rngResult' = Player_last_n_games(rngInput)
    /\ rngPhase' = "checked"
    /\ UNCHANGED <<rngSite, rngInput>>
    /\ UNCHANGED othersRng

NextRng == ValidateLastNGames \/ ValidateLastNDays \/ GetGameLogsLastNGames

\* The integer checked, and the way Python prints it.
RngN == rngInput.val[2]

RngText == IF RngN < 0 THEN "-" \o NatStr(-RngN) ELSE NatStr(RngN)

\* The parameter name and the upper end of the range at the site.
RngName ==
    IF rngSite = "Validators.validate_last_n_days" THEN "last_n_days"
    ELSE "last_n_games"

RngTop == IF rngSite = "Validators.validate_last_n_days" THEN 365 ELSE 82

\* C12: at each of the three checks an integer n is accepted exactly when
\* it lies in 1..82 (last_n_games) or 1..365 (last_n_days), an accepted
\* value comes back unchanged, every other integer raises ValueError with
\* '<name> must be between 1 and <top>, got n', and Player.get_game_logs
\* also accepts None; so get_game_logs and validate_last_n_games accept the
\* same integers.
C12_RangeChecks ==
    rngPhase = "checked" =>
        /\ rngInput.kind = "int" =>
               /\ rngResult.ok <=> (1 <= RngN /\ RngN <= RngTop)
               /\ rngResult.ok => rngResult.val = rngInput
               /\ ~rngResult.ok =>
                      /\ rngResult.val.type = "ValueError"
                      /\ rngResult.val.message =
                             RngName \o " must be between 1 and "
                             \o NatStr(RngTop) \o ", got " \o RngText
        /\ (rngInput = PyNone /\ rngSite = "Player.get_game_logs") =>
               rngResult = Ok(PyNone)

\* validate_last_n_games accepted 82 and gave it back.
C12_Witness ==
    /\ rngPhase = "checked"
    /\ rngSite = "Validators.validate_last_n_games"
    /\ rngInput = SmallInt(82)
    /\ rngResult = Ok(SmallInt(82))

(***************************************************************************)
(* The get_player_salary tool: the season formatted, the player built, the *)
(* standardized salary frame fetched and filtered by the season, the       *)
(* answer assembled.                                                       *)
(***************************************************************************)
\* Formatter.format_season: "{}-{}".format(int(y), str(int(y) + 1)[2:])
format_season(season_year) ==
    IF ~IntOfStr(PyStr(season_year)).ok THEN Raise("ValueError")
    ELSE Ok(NatStr(IntOfStr(PyStr(season_year)).val) \o "-" \o
            SubSeq(NatStr(IntOfStr(PyStr(season_year)).val + 1), 3,
                   Len(NatStr(IntOfStr(PyStr(season_year)).val + 1))))

\* The seasons tried: none, and the formats the tool documents.
ToolSeasons ==
    {PyNone, PyString("2024"), PyString("2023"), PyString("2023-24"),
     PyString("20232024")}

PstIdle ==
    /\ pstSeason = PyNone
    /\ pstPage = [tables |-> 0, rows |-> <<>>, rows2 |-> <<>>]
    /\ pstFilter = PyNone
    /\ pstSalary = EmptyFrame
    /\ pstResult = NotCalled
    /\ pstPc = "idle"

InitPst ==
    /\ pstSeason \in ToolSeasons
    /\ pstPage \in SalaryPages
    /\ pstFilter = PyNone
    /\ pstSalary = EmptyFrame
    /\ pstResult = NotCalled
    /\ pstPc = "format"

\* season = Formatter.format_season(season) if season else None
ToolFormatSeason ==
    /\ pstPc = "format"
    /\ IF pstSeason = PyNone \/ pstSeason = PyString("")
       THEN pstFilter' = PyNone /\ pstPc' = "salary" /\ pstResult' = pstResult
       ELSE IF format_season(pstSeason).ok
       THEN /\ pstFilter' = PyString(format_season(pstSeason).val)
            /\ pstPc' = "salary"
            /\ pstResult' = pstResult
       ELSE /\ pstFilter' = pstFilter
            /\ pstPc' = "done"
            /\ pstResult' = Raised("ValueError")
    /\ UNCHANGED <<pstSeason, pstPage, pstSalary>>
    /\ UNCHANGED othersPst

\* player = Player(player_name); salary = player.get_salary(standardize=True)
ToolGetSalary ==
    /\ pstPc = "salary"
    /\ IF get_salary(pstPage, TRUE).status = "returned"
       THEN /\ pstSalary' = get_salary(pstPage, TRUE).df
            /\ pstPc' = "filter"
            /\ pstResult' = pstResult
       ELSE /\ pstSalary' = pstSalary
            /\ pstPc' = "done"
            /\ pstResult' = get_salary(pstPage, TRUE)
    /\ UNCHANGED <<pstSeason, pstPage, pstFilter>>
    /\ UNCHANGED othersPst

\* if season: salary = salary[salary["season"] == season]
ToolFilterSeason ==
    /\ pstPc = "filter"
    /\ pstSalary' =
          IF pstFilter = PyNone THEN pstSalary
          ELSE [pstSalary EXCEPT !.rows =
                   SelectSeq(pstSalary.rows,
                       LAMBDA r : r[ColumnIndex(pstSalary, "season")]
                                      = pstFilter)]
    /\ pstPc' = "return"
    /\ UNCHANGED <<pstSeason, pstPage, pstFilter, pstResult>>
    /\ UNCHANGED othersPst

\* return {"league": player.league, ...}: Player has no attribute league.
ToolReturn ==
    /\ pstPc = "return"
    /\ pstResult' = Raised("AttributeError")
    /\ pstPc' = "done"
    /\ UNCHANGED <<pstSeason, pstPage, pstFilter, pstSalary>>
    /\ UNCHANGED othersPst

NextPst ==
    ToolFormatSeason \/ ToolGetSalary \/ ToolFilterSeason \/ ToolReturn

\* The rows of the player's standardized salary frame that are of the
\* season asked for; all of them when no season is asked for.
RowsOfSeason ==
    IF pstSeason = PyNone THEN get_salary(pstPage, TRUE).df.rows
    ELSE SelectSeq(get_salary(pstPage, TRUE).df.rows,
             LAMBDA r : r[1] = PyString(format_season_id(pstSeason).val))

\* C14: for every page Player.get_salary can standardize and a season given
\* in a documented format or not at all, get_player_salary returns, and its
\* salaries are exactly the player's rows of that season (all rows when no
\* season is given).
C14_SalaryOfSeason ==
    (pstPc = "done" /\ get_salary(pstPage, TRUE).status = "returned") =>
        /\ pstResult.status = "returned"
        /\ pstResult.df.rows = RowsOfSeason

\* C14, short of the tool's last statement: the frame the tool holds when
\* it assembles its answer has exactly the rows of the season asked for.
C14_FilteredRows ==
    pstPc = "return" => pstSalary.rows = RowsOfSeason

(***************************************************************************)
(* The date filter of the recent-games tools.  Time is counted in ticks,   *)
(* TicksPerDay to the day; a game date is a day number and parses to the   *)
(* midnight that begins the day.                                           *)
(***************************************************************************)
TicksPerDay == 3
MaxDay == 3
MaxLastNDays == 3
MaxGames == 2

\* pd.to_datetime of a date without a time of day
to_datetime(game_date) == game_date * TicksPerDay

\* timedelta(days=n)
timedelta(days) == days * TicksPerDay

\* cutoff_date = now - timedelta(days=last_n_days), kept with its time of
\* day; the rows whose parsed date is at or after it.
filter_by_date_range(df, last_n_days, now) ==
    SelectSeq(df, LAMBDA game_date :
        to_datetime(game_date) >= now - timedelta(last_n_days))

RecIdle ==
    /\ recNow = 0
    /\ recLastNDays = 0
    /\ recGames = <<>>
    /\ recOut = <<>>
    /\ recPc = "idle"

\* The season's games were played today or earlier.
InitRec ==
    /\ recNow \in 0..(MaxDay * TicksPerDay + TicksPerDay - 1)
    /\ recLastNDays \in 1..MaxLastNDays
    /\ recGames \in UNION {[1..n -> 0..MaxDay] : n \in 0..MaxGames}
    /\ \A i \in DOMAIN recGames : recGames[i] <= recNow \div TicksPerDay
    /\ recOut = <<>>
    /\ recPc = "call"

FilterByDateRange ==
    /\ recPc = "call"
    /\ recOut' = filter_by_date_range(recGames, recLastNDays, recNow)
    /\ recPc' = "done"
    /\ UNCHANGED <<recNow, recLastNDays, recGames>>
    /\ UNCHANGED othersRec

NextRec == FilterByDateRange

Today == recNow \div TicksPerDay

\* C15: the filter keeps exactly the games whose date lies within the
\* last N calendar days, today included, at whatever time of day the call
\* is made.
C15_LastNCalendarDays ==
    recPc = "done" =>
        recOut = SelectSeq(recGames,
                     LAMBDA game_date : game_date >= Today - recLastNDays)

\* C15, the part that holds: no game older than N calendar days is kept,
\* and every game of the last N - 1 calendar days is.
C15_NoOlderGame ==
    recPc = "done" =>
        /\ \A i \in DOMAIN recOut : recOut[i] >= Today - recLastNDays
        /\ \A i \in DOMAIN recGames :
               recGames[i] > Today - recLastNDays =>
                   \E j \in DOMAIN recOut : recOut[j] = recGames[i]

(***************************************************************************)
(* League.__init__: the season of the League object.                       *)
(***************************************************************************)
\* The 4-digit years tried, beside every 2-digit year.
FourDigitYears == {1946, 1999, 2000, 2009, 2024, 2049}

\* The last two digits of a year, as text.
LastTwo(year) == ZFill(NatStr(year % 100), 2)

\* A year as int, as str, as str with its leading zero; a season string
\* that begins with the year.
SeasonInputs ==
    {SmallInt(y) : y \in (0..99) \cup FourDigitYears}
        \cup {PyString(NatStr(y)) : y \in (0..99) \cup FourDigitYears}
        \cup {PyString(LastTwo(y)) : y \in 0..99}
        \cup {PyString(NatStr(y) \o "-" \o LastTwo(y + 1)) :
                 y \in FourDigitYears}
        \cup {PyString(LastTwo(y) \o "-" \o LastTwo(y + 1)) : y \in 0..99}

NoLeague == [status |-> "none", season_year |-> 0, season |-> "", error |-> ""]

LgsIdle ==
    /\ lgsInput = PyNone
    /\ lgsObj = NoLeague
    /\ lgsPc = "idle"

InitLgs ==
    /\ lgsInput \in SeasonInputs
    /\ lgsObj = NoLeague
    /\ lgsPc = "init"

\* League(season_year=X): season_year normalized, season formatted from it.
LeagueSeason ==
    /\ lgsPc = "init"
    /\ lgsObj' =
          IF ~normalize_season_year(lgsInput).ok
          THEN [NoLeague EXCEPT !.status = "raised",
                   !.error = normalize_season_year(lgsInput).val]
          ELSE [status |-> "built",
                season_year |-> normalize_season_year(lgsInput).val,
                season |-> format_season(
                    SmallInt(normalize_season_year(lgsInput).val)).val,
                error |-> ""]
    /\ lgsPc' = "done"
    /\ UNCHANGED lgsInput
    /\ UNCHANGED othersLgs

NextLgs == LeagueSeason

\* The year an input names: the number before the hyphen if there is one.
NamedYear ==
    IF lgsInput.kind = "int" THEN IntValue(lgsInput)
    ELSE NatOf(SplitOn(lgsInput.val, "-")[1], 0)

\* The starting year the year stands for: 00-49 are 2000-2049, 50-99 are
\* 1950-1999.
StartingYear ==
    IF NamedYear >= 100 THEN NamedYear
    ELSE IF NamedYear <= 49 THEN 2000 + NamedYear
    ELSE 1900 + NamedYear

\* C16: for a 4-digit year, a 2-digit year, as int or str, or a season
\* string beginning with such a year, the League has the 4-digit starting
\* year as season_year and 'YYYY-YY' as season.
C16_LeagueSeason ==
    lgsPc = "done" =>
        /\ lgsObj.status = "built"
        /\ lgsObj.season_year = StartingYear
        /\ lgsObj.season =
              NatStr(StartingYear) \o "-" \o LastTwo(StartingYear + 1)

\* C16, the part that holds: every input but a season string beginning
\* with a 2-digit year.
C16_NotTwoDigitSeason ==
    (lgsPc = "done" /\ NamedYear < 100 /\ lgsInput.kind = "str"
        /\ Contains(lgsInput.val, "-"))
    \/ C16_LeagueSeason

(***************************************************************************)
(* RateLimiter.wait and RateLimiter.reset, statement by statement, for     *)
(* one caller or several.  time() is taken to be non-decreasing; sleep(d)  *)
(* returns once d has passed, or any time later.                           *)
(***************************************************************************)
MaxLimTicks == 9
MaxLimOps == 3
NumCallers == 2

NoCall == [called |-> 0, slept |-> 0, wake |-> 0]

LimIdle ==
    /\ limNow = 0
    /\ limLast = PyNone
    /\ limPc = <<>>
    /\ limCall = <<>>
    /\ limLog = <<>>

\* RateLimiter.__init__ has run; no caller is inside wait().
LimStart(callers) ==
    /\ limNow = 0
    /\ limLast = PyNone
    /\ limPc = [t \in callers |-> "idle"]
    /\ limCall = [t \in callers |-> NoCall]
    /\ limLog = <<>>

InitLim == LimStart(1..NumCallers)

\* A caller enters wait().  Calls are begun while there is time left on
\* the clock for them to end.
CallWait(t) ==
    /\ limPc[t] = "idle"
    /\ Len(limLog) + Cardinality({u \in DOMAIN limPc : limPc[u] # "idle"})
           < MaxLimOps
    /\ limNow + min_interval <= MaxLimTicks
    /\ limPc' = [limPc EXCEPT ![t] = "check"]
    /\ limCall' = [limCall EXCEPT ![t] = [NoCall EXCEPT !.called = limNow]]
    /\ UNCHANGED <<limNow, limLast, limLog>>
    /\ UNCHANGED othersLim

\* if self._last_call_time is not None:
CheckLast(t) ==
    /\ limPc[t] = "check"
    /\ limPc' = [limPc EXCEPT ![t] =
                    IF limLast # PyNone THEN "elapsed" ELSE "write"]
    /\ UNCHANGED <<limNow, limLast, limCall, limLog>>
    /\ UNCHANGED othersLim

\* elapsed = time() - self._last_call_time, and the comparison with
\* _min_interval; the subtraction raises TypeError if the attribute has
\* become None meanwhile.  The faulty variant sleeps for what has elapsed.
ReadElapsed_SleepElapsed(t) ==
    /\ limPc[t] = "elapsed"
    /\ limLast # PyNone
    /\ IF limNow - limLast.val < min_interval
       THEN /\ limPc' = [limPc EXCEPT ![t] = "sleep"]
            /\ limCall' = [limCall EXCEPT
                   ![t].slept = limNow - limLast.val,
                   ![t].wake = limNow + (limNow - limLast.val)]
       ELSE /\ limPc' = [limPc EXCEPT ![t] = "write"]
            /\ limCall' = limCall
    /\ UNCHANGED <<limNow, limLast, limLog>>
    /\ UNCHANGED othersLim

ReadElapsed(t) ==
    /\ limPc[t] = "elapsed"
    /\ IF limLast = PyNone
       THEN /\ limPc' = [limPc EXCEPT ![t] = "raised"]
            /\ limCall' = limCall
       ELSE IF limNow - limLast.val < min_interval
       THEN /\ limPc' = [limPc EXCEPT ![t] = "sleep"]
            /\ limCall' = [limCall EXCEPT
                   ![t].slept = min_interval - (limNow - limLast.val),
                   ![t].wake = limNow + (min_interval - (limNow - limLast.val))]
       ELSE /\ limPc' = [limPc EXCEPT ![t] = "write"]
            /\ limCall' = limCall
    /\ UNCHANGED <<limNow, limLast, limLog>>
    /\ UNCHANGED othersLim

\* sleep(self._min_interval - elapsed) returns.
SleepReturns(t) ==
    /\ limPc[t] = "sleep"
    /\ limNow >= limCall[t].wake
    /\ limPc' = [limPc EXCEPT ![t] = "write"]
    /\ UNCHANGED <<limNow, limLast, limCall, limLog>>
    /\ UNCHANGED othersLim

\* self._last_call_time = time(), and wait() returns.
WriteLast(t) ==
    /\ limPc[t] = "write"
    /\ limLast' = PyFloat(limNow)
    /\ limLog' = Append(limLog,
                     [op |-> "wait", by |-> t, at |-> limNow,
                      called |-> limCall[t].called,
                      slept |-> limCall[t].slept])
    /\ limPc' = [limPc EXCEPT ![t] = "idle"]
    /\ limCall' = [limCall EXCEPT ![t] = NoCall]
    /\ UNCHANGED limNow
    /\ UNCHANGED othersLim

\* RateLimiter.reset
Reset(t) ==
    /\ limPc[t] = "idle"
    /\ Len(limLog) + Cardinality({u \in DOMAIN limPc : limPc[u] # "idle"})
           < MaxLimOps
    /\ limLast' = PyNone
    /\ limLog' = Append(limLog,
                     [op |-> "reset", by |-> t, at |-> limNow,
                      called |-> limNow, slept |-> 0])
    /\ UNCHANGED <<limNow, limPc, limCall>>
    /\ UNCHANGED othersLim

\* Time passes.
Tick ==
    /\ limNow < MaxLimTicks
    /\ limNow' = limNow + 1
    /\ UNCHANGED <<limLast, limPc, limCall, limLog>>
    /\ UNCHANGED othersLim

\* A caller inside wait() runs its next statement.
Runs(t) == CheckLast(t) \/ ReadElapsed(t) \/ SleepReturns(t) \/ WriteLast(t)

NextLim ==
    \/ \E t \in DOMAIN limPc : CallWait(t)
    \/ \E t \in DOMAIN limPc : CheckLast(t)
    \/ \E t \in DOMAIN limPc : ReadElapsed(t)
    \/ \E t \in DOMAIN limPc : SleepReturns(t)
    \/ \E t \in DOMAIN limPc : WriteLast(t)
    \/ \E t \in DOMAIN limPc : Reset(t)
    \/ Tick

\* The returns of wait() that follow another with no reset() in between.
Paced == {i \in 2..Len(limLog) :
             limLog[i].op = "wait" /\ limLog[i - 1].op = "wait"}

\* The returns of wait() that are the first since construction or reset().
Fresh == {i \in 1..Len(limLog) :
             limLog[i].op = "wait" /\ (i = 1 \/ limLog[i - 1].op = "reset")}

C19_Paces ==
    /\ \A i \in Fresh : limLog[i].slept = 0
    /\ \A i \in Paced : limLog[i].at - limLog[i - 1].at >= min_interval
    /\ \A i \in 1..Len(limLog) : limLog[i].slept <= min_interval
    /\ \A i \in Paced :
           limLog[i].called - limLog[i - 1].at >= min_interval
               => limLog[i].slept = 0

\* C19: with a single caller, every wait() returns; the first wait() after
\* construction or reset() does not sleep; two returns of wait() with no
\* reset() in between are at least min_interval apart; no wait() sleeps
\* longer than min_interval, nor at all when min_interval has passed since
\* the previous return.
C19_SingleCaller ==
    /\ []C19_Paces
    /\ \A t \in {1} : (limPc[t] # "idle") ~> (limPc[t] = "idle")

\* A wait() that slept, returning min_interval after the one before it,
\* then a reset().
C19_Witness ==
    /\ DOMAIN limPc = {1}
    /\ Len(limLog) = 3
    /\ limLog[1].op = "wait" /\ limLog[2].op = "wait"
    /\ limLog[2].slept > 0
    /\ limLog[2].at - limLog[1].at = min_interval
    /\ limLog[3].op = "reset"

\* C20: with several callers, any two returns of wait() with no reset()
\* in between are at least min_interval apart.
C20_ReturnsSpacedAcrossCallers ==
    \A i \in Paced : limLog[i].at - limLog[i - 1].at >= min_interval

(***************************************************************************)
(* The server: one tool call from each client, the calls running at once   *)
(* or one after another.  A call builds its own Player, Team or League;    *)
(* the one object the calls share is rate_limiter, which                   *)
(* Team.get_game_log waits on twice for each game when advanced stats are  *)
(* asked for.  A tool that raises ends its call with an error answer.      *)
(* The times the limiter holds are left out: a sleep changes no answer.    *)
(***************************************************************************)
NumClients == 3

\* The calls tried: those of the server tests and their neighbours.
ToolCalls ==
    {[tool |-> "get_player_game_logs", name |-> "Invalid Player Name XYZ",
      last_n_games |-> SmallInt(10), advanced |-> FALSE],
     [tool |-> "get_team_recent_games", name |-> "MIL",
      last_n_games |-> SmallInt(3), advanced |-> FALSE],
     [tool |-> "get_team_recent_games", name |-> "MIL",
      last_n_games |-> SmallInt(1), advanced |-> TRUE],
     [tool |-> "get_team_recent_games", name |-> "LVA",
      last_n_games |-> SmallInt(3), advanced |-> FALSE],
     [tool |-> "get_league_leaders", name |-> "PTS",
      last_n_games |-> SmallInt(5), advanced |-> FALSE]}

\* What a tool does before it first reaches the limiter: its checks and
\* the object it builds.  get_player_game_logs reads player.league, which
\* Player does not have; get_league_leaders hands League a keyword it does
\* not take.
ToolBody(call) ==
    IF call.tool = "get_player_game_logs"
    THEN IF ~validate_last_n_games(call.last_n_games).ok
         THEN validate_last_n_games(call.last_n_games)
         ELSE IF find_players_by_full_name(call.name) = <<>>
         THEN Raise(Error("ValueError", call.name \o " not found"))
         ELSE Raise(Error("AttributeError",
                  "'Player' object has no attribute 'league'"))
    ELSE IF call.tool = "get_team_recent_games"
    THEN IF ~validate_team_abbreviation(call.name)
         THEN Raise(Error("ValueError", "Invalid team abbreviation"))
         ELSE IF ~validate_last_n_games(call.last_n_games).ok
         THEN validate_last_n_games(call.last_n_games)
         ELSE Ok(PyString("games of " \o call.name))
    ELSE Raise(Error("TypeError",
             "League.__init__() got an unexpected keyword argument 'league'"))

\* Team._add_advanced_stats: two rate_limiter.wait() for each game.
ToolWaits(call) ==
    IF call.tool = "get_team_recent_games" /\ call.advanced
    THEN 2 * IntValue(call.last_n_games)
    ELSE 0

NoAnswer == [ok |-> FALSE, val |-> Error("", "")]

SrvIdle ==
    /\ srvCalls = <<>>
    /\ srvLast = PyNone
    /\ srvPc = <<>>
    /\ srvWaits = <<>>
    /\ srvResult = <<>>

\* The limiter is fresh, or was used by an earlier call.
InitSrv ==
    /\ srvCalls \in [1..NumClients -> ToolCalls]
    /\ srvLast \in {PyNone, PyFloat(0)}
    /\ srvPc = [c \in 1..NumClients |-> "call"]
    /\ srvWaits = [c \in 1..NumClients |-> 0]
    /\ srvResult = [c \in 1..NumClients |-> NoAnswer]

\* The tool raises: its call is answered with the error.  In the faulty
\* variant the error handling resets the limiter.
ServeRaises_Reset(c) ==
    /\ srvPc[c] = "call"
    /\ ~ToolBody(srvCalls[c]).ok
    /\ srvResult' = [srvResult EXCEPT ![c] = ToolBody(srvCalls[c])]
    /\ srvPc' = [srvPc EXCEPT ![c] = "done"]
    /\ srvLast' = PyNone
    /\ UNCHANGED <<srvCalls, srvWaits>>
    /\ UNCHANGED othersSrv

ServeRaises(c) ==
    /\ srvPc[c] = "call"
    /\ ~ToolBody(srvCalls[c]).ok
    /\ srvResult' = [srvResult EXCEPT ![c] = ToolBody(srvCalls[c])]
    /\ srvPc' = [srvPc EXCEPT ![c] = "done"]
    /\ UNCHANGED <<srvCalls, srvLast, srvWaits>>
    /\ UNCHANGED othersSrv

\* The tool's checks pass and its object is built.
ServeProceeds(c) ==
    /\ srvPc[c] = "call"
    /\ ToolBody(srvCalls[c]).ok
    /\ srvWaits' = [srvWaits EXCEPT ![c] = ToolWaits(srvCalls[c])]
    /\ srvPc' = [srvPc EXCEPT ![c] =
                    IF ToolWaits(srvCalls[c]) > 0 THEN "check" ELSE "return"]
    /\ UNCHANGED <<srvCalls, srvLast, srvResult>>
    /\ UNCHANGED othersSrv

\* wait(): if self._last_call_time is not None:
ServeCheckLast(c) ==
    /\ srvPc[c] = "check"
    /\ srvPc' = [srvPc EXCEPT ![c] =
                    IF srvLast # PyNone THEN "elapsed" ELSE "write"]
    /\ UNCHANGED <<srvCalls, srvLast, srvWaits, srvResult>>
    /\ UNCHANGED othersSrv

\* wait(): elapsed = time() - self._last_call_time, and the sleep if any;
\* TypeError if the attribute has become None.
ServeReadElapsed(c) ==
    /\ srvPc[c] = "elapsed"
    /\ IF srvLast = PyNone
       THEN /\ srvResult' = [srvResult EXCEPT ![c] =
                   Raise(Error("TypeError",
                       "unsupported operand type(s) for -: 'float' and 'NoneType'"))]
            /\ srvPc' = [srvPc EXCEPT ![c] = "done"]
       ELSE /\ srvResult' = srvResult
            /\ srvPc' = [srvPc EXCEPT ![c] = "write"]
    /\ UNCHANGED <<srvCalls, srvLast, srvWaits>>
    /\ UNCHANGED othersSrv

\* wait(): self._last_call_time = time()
ServeWriteLast(c) ==
    /\ srvPc[c] = "write"
    /\ srvLast' = PyFloat(0)
    /\ srvWaits' = [srvWaits EXCEPT ![c] = srvWaits[c] - 1]
    /\ srvPc' = [srvPc EXCEPT ![c] =
                    IF srvWaits[c] > 1 THEN "check" ELSE "return"]
    /\ UNCHANGED <<srvCalls, srvResult>>
    /\ UNCHANGED othersSrv

\* The tool returns: its call is answered with the value.
ServeReturns(c) ==
    /\ srvPc[c] = "return"
    /\ srvResult' = [srvResult EXCEPT ![c] = ToolBody(srvCalls[c])]
    /\ srvPc' = [srvPc EXCEPT ![c] = "done"]
    /\ UNCHANGED <<srvCalls, srvLast, srvWaits>>
    /\ UNCHANGED othersSrv

\* A call runs its next step.
Serves(c) ==
    \/ ServeRaises(c) \/ ServeProceeds(c) \/ ServeCheckLast(c)
    \/ ServeReadElapsed(c) \/ ServeWriteLast(c) \/ ServeReturns(c)

NextSrv ==
    \/ \E c \in DOMAIN srvPc : ServeRaises(c)
    \/ \E c \in DOMAIN srvPc : ServeProceeds(c)
    \/ \E c \in DOMAIN srvPc : ServeCheckLast(c)
    \/ \E c \in DOMAIN srvPc : ServeReadElapsed(c)
    \/ \E c \in DOMAIN srvPc : ServeWriteLast(c)
    \/ \E c \in DOMAIN srvPc : ServeReturns(c)

SynMethods ==
    [get_synergy_player |-> PLAYTYPES, get_synergy_team |-> PLAYTYPES,
     get_tracking_player |-> TRACKING_TYPES,
     get_tracking_team |-> TRACKING_TYPES]

\* The options the docstrings list.
DocumentedPlayTypes ==
    {"Transition", "Isolation", "PRBallHandler", "PRRollman", "Postup",
     "Spotup", "Handoff", "Cut", "OffScreen", "OffRebound", "Misc"}

DocumentedTrackTypes ==
    {"SpeedDistance", "Possessions", "CatchShoot", "PullUpShot", "Defense",
     "Drives", "Passing", "ElbowTouch", "PostTouch", "PaintTouch",
     "Efficiency"}

Documented(method) ==
    IF method \in {"get_synergy_player", "get_synergy_team"}
    THEN DocumentedPlayTypes ELSE DocumentedTrackTypes

\* An option as a caller may write it.
Spellings(option) ==
    {option, Lower(option), Upper(option),
     Char(option, 1) \o "_" \o Tail1(option),
     Char(option, 1) \o "-" \o Lower(Tail1(option))}

SynInputs(method) ==
    UNION {Spellings(option) : option \in Documented(method)}
        \cup {"all", "ALL", "A_l-l", "zone", ""}

NoTables == [status |-> "none", tables |-> {}, error |-> ""]

SynIdle ==
    /\ synMethod = ""
    /\ synInput = ""
    /\ synPlay = Ok(PyNone)
    /\ synLeft = {}
    /\ synSent = {}
    /\ synTwice = {}
    /\ synResult = NoTables
    /\ synPc = "idle"

InitSyn ==
    /\ synMethod \in DOMAIN SynMethods
    /\ synInput \in SynInputs(synMethod)
    /\ synPlay = Ok(PyNone)
    /\ synLeft = {}
    /\ synSent = {}
    /\ synTwice = {}
    /\ synResult = NoTables
    /\ synPc = "check"

\* self.play_type = Formatter.check_playtype(...), and the isinstance test
SynCheckPlaytype ==
    /\ synPc = "check"
    /\ synPlay' = check_playtype(synInput, SynMethods[synMethod])
    /\ IF ~synPlay'.ok
       THEN /\ synResult' = [NoTables EXCEPT !.status = "raised",
                                !.error = synPlay'.val.type]
            /\ synPc' = "done"
            /\ synLeft' = synLeft
       ELSE IF synPlay'.val.kind = "str"
       THEN synResult' = synResult /\ synPc' = "single" /\ synLeft' = synLeft
       ELSE /\ synResult' = synResult
            /\ synPc' = "loop"
            /\ synLeft' = synPlay'.val.val
    /\ UNCHANGED <<synMethod, synInput, synSent, synTwice>>
    /\ UNCHANGED othersSyn

\* The request for one type, and the return of its table.
SynRequestOne ==
    /\ synPc = "single"
    /\ synSent' = {synPlay.val.val}
    /\ synResult' = [NoTables EXCEPT !.status = "returned",
                        !.tables = {synPlay.val.val}]
    /\ synPc' = "done"
    /\ UNCHANGED <<synMethod, synInput, synPlay, synLeft, synTwice>>
    /\ UNCHANGED othersSyn

\* for play in track(self.play_type): the request for the next type, its
\* table appended, rate_limiter.wait().
SynRequestNext ==
    /\ synPc = "loop"
    /\ synLeft # {}
    /\ \E play \in synLeft :
          /\ synLeft' = synLeft \ {play}
          /\ synSent' = synSent \cup {play}
          /\ synTwice' = IF play \in synSent THEN synTwice \cup {play}
                         ELSE synTwice
    /\ UNCHANGED <<synMethod, synInput, synPlay, synResult, synPc>>
    /\ UNCHANGED othersSyn

\* pd.concat(df_list), and the return.
SynConcat ==
    /\ synPc = "loop"
    /\ synLeft = {}
    /\ synResult' = [NoTables EXCEPT !.status = "returned",
                        !.tables = synSent]
    /\ synPc' = "done"
    /\ UNCHANGED <<synMethod, synInput, synPlay, synLeft, synSent, synTwice>>
    /\ UNCHANGED othersSyn

NextSyn == SynCheckPlaytype \/ SynRequestOne \/ SynRequestNext \/ SynConcat

\* The argument with case, '_' and '-' taken away.
SynKey == Upper(RemoveChars(synInput, {"_", "-"}))

\* The documented options the argument spells.
SynOptions == {option \in Documented(synMethod) : Upper(option) = SynKey}

\* C21: a documented option, however spelt, is answered by one request
\* for it and its table; 'all' by one request for each of the 11 types
\* and all their tables, the loop visiting each type once.
C21_OneRequestPerType ==
    /\ (synPc = "done" /\ SynOptions # {}) =>
           /\ synResult.status = "returned"
           /\ synSent = SynOptions /\ synTwice = {}
           /\ synResult.tables = SynOptions
    /\ (synPc = "done" /\ SynKey = "ALL") =>
           /\ synResult.status = "returned"
           /\ synSent = Documented(synMethod) /\ synTwice = {}
           /\ Cardinality(synSent) = 11
           /\ synResult.tables = Documented(synMethod)
    /\ synPc = "loop" =>
           /\ synLeft \cup synSent = Documented(synMethod)
           /\ synLeft \cap synSent = {}

\* get_tracking_team was called with 'all' and returned the eleven tables.
C21_Witness ==
    /\ synMethod = "get_tracking_team"
    /\ SynKey = "ALL"
    /\ synPc = "done"
    /\ Cardinality(synResult.tables) = 11

(***************************************************************************)
(* Two runs of one 'all' expansion, side by side, upstream answering both  *)
(* alike.  list(set(...)) of strings iterates in the order of the strings' *)
(* hashes, which are salted anew for each Python process: within one       *)
(* process the two runs visit the types in one order, in two processes     *)
(* each run has an order of its own.                                       *)
(***************************************************************************)
DetIdle ==
    /\ detTypes = ""
    /\ detSameProcess = TRUE
    /\ detLeft1 = {}
    /\ detLeft2 = {}
    /\ detSame = TRUE
    /\ detPc = "idle"

InitDet ==
    /\ detTypes \in DOMAIN PlaytypeSites
    /\ detSameProcess \in BOOLEAN
    /\ detLeft1 = {}
    /\ detLeft2 = {}
    /\ detSame = TRUE
    /\ detPc = "check"

\* Both runs: self.play_type = Formatter.check_playtype("all", ...)
DetCheckPlaytype ==
    /\ detPc = "check"
    /\ detLeft1' = check_playtype("all", PlaytypeSites[detTypes]).val.val
    /\ detLeft2' = check_playtype("all", PlaytypeSites[detTypes]).val.val
    /\ detPc' = "loop"
    /\ UNCHANGED <<detTypes, detSameProcess, detSame>>
    /\ UNCHANGED othersDet

\* Both runs: the next iteration of the loop, its request and its table
\* appended.  Once the two orders have differed, which types come next no
\* longer matters and each run takes its remaining types in a fixed order.
DetRequestNext ==
    /\ detPc = "loop"
    /\ detLeft1 # {}
    /\ \E play1 \in detLeft1, play2 \in detLeft2 :
          /\ detSameProcess => play1 = play2
          /\ ~detSame => /\ play1 = CHOOSE play \in detLeft1 : TRUE
                         /\ play2 = CHOOSE play \in detLeft2 : TRUE
          /\ detLeft1' = detLeft1 \ {play1}
          /\ detLeft2' = detLeft2 \ {play2}
          /\ detSame' = (detSame /\ play1 = play2)
    /\ UNCHANGED <<detTypes, detSameProcess, detPc>>
    /\ UNCHANGED othersDet

\* Both runs: pd.concat(df_list), and the return.
DetConcat ==
    /\ detPc = "loop"
    /\ detLeft1 = {}
    /\ detPc' = "done"
    /\ UNCHANGED <<detTypes, detSameProcess, detLeft1, detLeft2, detSame>>
    /\ UNCHANGED othersDet

NextDet == DetCheckPlaytype \/ DetRequestNext \/ DetConcat

\* C22: two runs with type 'all' send their requests in the same order,
\* and so return their rows in the same order.
C22_SameOrder == detSame

\* C22 within one process.
C22_SameOrderInProcess == detSameProcess => detSame

(***************************************************************************)
(* One Player object and its cached season totals.  The object's season is *)
(* fixed at construction; upstream answers every PlayerCareerStats request *)
(* with the same season-totals table, one row per season and team, and a   *)
(* row of TEAM_ID 0 for the total of a season spent with several teams.    *)
(***************************************************************************)
MaxTmsRows == 2
MaxTmsCalls == 3

\* self.season of the object, as Formatter.format_season leaves it.
Player_season == "2024-25"

SeasonTotalsColumns == <<"SEASON_ID", "TEAM_ID">>

SeasonTotalsRows ==
    {<<PyString(s), SmallInt(t)>> : s \in {"2023-24", Player_season},
                                    t \in {0, 7, 9}}

SeasonTotalsTables ==
    UNION {{[columns |-> SeasonTotalsColumns, rows |-> rows] :
                rows \in [1..n -> SeasonTotalsRows]} : n \in 0..MaxTmsRows}

PtMethods == {"get_pt_pass", "get_pt_reb", "get_pt_shots", "get_shot_chart"}

\* hasattr(self, "season_totals") and the attribute's value.
NoAttr == [has |-> FALSE, df |-> EmptyFrame]

Attr(df) == [has |-> TRUE, df |-> df]

NoCallYet == [method |-> "", status |-> "not called", error |-> "", teams |-> <<>>]

\* get_season_career_totals(standardize): the value of self.season_totals.
get_season_career_totals(df_list_0, standardize) ==
    IF standardize THEN standardize_dataframe(df_list_0) ELSE df_list_0

\* The rows of teams_df picked by
\* (teams_df["SEASON_ID"] == self.season) & (teams_df["TEAM_ID"] != 0).
TeamRows(teams_df) ==
    SelectSeq(teams_df.rows,
              LAMBDA row :
                 /\ row[ColumnIndex(teams_df, "SEASON_ID")] = PyString(Player_season)
                 /\ row[ColumnIndex(teams_df, "TEAM_ID")] # SmallInt(0))

\* _get_player_teams_for_season on the cached table: teams_df["SEASON_ID"]
\* raises KeyError when the table has no column of that name.
get_player_teams_for_season(season_totals) ==
    IF ~HasColumn(season_totals, "SEASON_ID")
    THEN Raise(Error("KeyError", "'SEASON_ID'"))
    ELSE IF ~HasColumn(season_totals, "TEAM_ID")
    THEN Raise(Error("KeyError", "'TEAM_ID'"))
    ELSE Ok([i \in 1..Len(TeamRows(season_totals)) |->
                TeamRows(season_totals)[i][ColumnIndex(season_totals, "TEAM_ID")]])

\* get_pt_pass, get_pt_reb, get_pt_shots, get_shot_chart: one request per
\* team when there are several, else one request for teams[0].
get_pt(method, season_totals) ==
    LET teams == get_player_teams_for_season(season_totals)
    IN  IF ~teams.ok
        THEN [method |-> method, status |-> "raised",
              error |-> teams.val.type, teams |-> <<>>]
        ELSE IF Len(teams.val) = 0
        THEN [method |-> method, status |-> "raised",
              error |-> "IndexError", teams |-> <<>>]
        ELSE [method |-> method, status |-> "returned",
              error |-> "", teams |-> teams.val]

TmsIdle ==
    /\ tmsUpstream = EmptyFrame
    /\ tmsSeasonTotals = NoAttr
    /\ tmsCalls = 0
    /\ tmsLast = NoCallYet

InitTms ==
    /\ tmsUpstream \in SeasonTotalsTables
    /\ tmsSeasonTotals = NoAttr
    /\ tmsCalls = 0
    /\ tmsLast = NoCallYet

\* player.get_season_career_totals(standardize)
GetSeasonCareerTotals ==
    /\ tmsCalls < MaxTmsCalls
    /\ \E standardize \in BOOLEAN :
          tmsSeasonTotals' = Attr(get_season_career_totals(tmsUpstream, standardize))
    /\ tmsCalls' = tmsCalls + 1
    /\ tmsLast' = [method |-> "get_season_career_totals", status |-> "returned",
                   error |-> "", teams |-> <<>>]
    /\ UNCHANGED tmsUpstream
    /\ UNCHANGED othersTms

\* player.get_pt_pass() and its three siblings: the season totals are
\* fetched, not standardized, when the attribute is missing.
GetPt ==
    /\ tmsCalls < MaxTmsCalls
    /\ tmsSeasonTotals' =
          IF tmsSeasonTotals.has THEN tmsSeasonTotals
          ELSE Attr(get_season_career_totals(tmsUpstream, FALSE))
    /\ \E method \in PtMethods : tmsLast' = get_pt(method, tmsSeasonTotals'.df)
    /\ tmsCalls' = tmsCalls + 1
    /\ UNCHANGED tmsUpstream
    /\ UNCHANGED othersTms

NextTms == GetSeasonCareerTotals \/ GetPt

\* The teams of the object's season in the upstream table.
SeasonTeams ==
    [i \in 1..Len(TeamRows(tmsUpstream)) |-> TeamRows(tmsUpstream)[i][2]]

\* C23: whatever was called before, a get_pt_* call or get_shot_chart asks
\* for the teams the upstream season totals give for the object's season,
\* and returns when there is such a team.
C23_TeamsFromCachedTotals ==
    (tmsLast.method \in PtMethods /\ SeasonTeams # <<>>) =>
        /\ tmsLast.status = "returned"
        /\ tmsLast.teams = SeasonTeams

\* C23 for an object whose cached season totals are not standardized.
C23_RawTotals ==
    (/\ tmsLast.method \in PtMethods
     /\ SeasonTeams # <<>>
     /\ tmsSeasonTotals.df.columns = SeasonTotalsColumns) =>
        /\ tmsLast.status = "returned"
        /\ tmsLast.teams = SeasonTeams

(***************************************************************************)
(* Team.get_game_log.  A table is a sequence of rows, a row a function     *)
(* from column names to values; NaN stands for pandas' missing value.  The *)
(* upstream game log has one row per game, its Game_IDs distinct.          *)
(***************************************************************************)
MaxLogGames == 3
MaxLastN == 4

NaN == 0 - 1

LogGameIds == 1..MaxLogGames

\* The upstream row of a game in the TeamGameLog answer.
LogRow(game_id) == [c \in {"Game_ID", "PTS"} |-> IF c = "Game_ID" THEN game_id ELSE 100 + game_id]

\* The game logs upstream may answer with: any of the games, the newest
\* first or the oldest first.
GameLogs ==
    UNION {{[i \in 1..n |-> LogRow(ids[i])] :
               ids \in {f \in [1..n -> LogGameIds] :
                           \/ \A i, j \in 1..n : i < j => f[i] < f[j]
                           \/ \A i, j \in 1..n : i < j => f[i] > f[j]}} :
           n \in 0..MaxLogGames}

\* df.head(n): the first n rows, and for a negative n all rows but the
\* last -n.
head(df, n) ==
    IF n >= 0 THEN SubSeq(df, 1, IF n < Len(df) THEN n ELSE Len(df))
    ELSE SubSeq(df, 1, Len(df) + n)

\* pd.DataFrame(list of dicts): the columns are the keys of all the dicts,
\* a key missing from a dict is NaN in its row.
DataFrame(dicts) ==
    LET columns == UNION {DOMAIN dicts[i] : i \in 1..Len(dicts)}
    IN  [i \in 1..Len(dicts) |->
            [c \in columns |-> IF c \in DOMAIN dicts[i] THEN dicts[i][c] ELSE NaN]]

\* The rows of right whose key equals the key of the left row.
Matches(row, right, on) == SelectSeq(right, LAMBDA r : r[on] = row[on])

RECURSIVE MergeRows(_, _, _, _)
\* df.merge(right, on=on, how=how), how "left" or "inner": row by row in
\* the order of df, each row once per matching row of right; a row without
\* a match is kept with NaN under "left" and dropped under "inner".
MergeRows(df, right, on, how) ==
    IF df = <<>> THEN <<>>
    ELSE LET row == Head(df)
             found == Matches(row, right, on)
             columns == UNION {DOMAIN right[i] : i \in 1..Len(right)}
             joined ==
                IF found # <<>>
                THEN [k \in 1..Len(found) |-> row @@ found[k]]
                ELSE IF how = "left"
                THEN <<row @@ [c \in columns |-> NaN]>>
                ELSE <<>>
         IN  joined \o MergeRows(Tail(df), right, on, how)

\* The faulty variant: how="inner".
merge_Inner(df, right) == MergeRows(df, right, "Game_ID", "inner")

\* df.merge(right, on="Game_ID", how="left")
merge(df, right) == MergeRows(df, right, "Game_ID", "left")

\* opponent_stats_list of _add_opponent_stats: one dict for each game of df
\* that has an opponent row in the league's game log.
opponent_stats_list(df, opponent_games) ==
    LET found == SelectSeq(df, LAMBDA row : row["Game_ID"] \in opponent_games)
    IN  [i \in 1..Len(found) |->
            [c \in {"Game_ID", "OPP_PTS"} |->
                IF c = "Game_ID" THEN found[i]["Game_ID"]
                ELSE 90 + found[i]["Game_ID"]]]

\* The answers to one per-game request: the team's row with its values, or
\* an exception (a table without the team's row leaves game_advanced as an
\* exception does).
Answers == {"values", "fails"}

\* game_advanced of one game of _add_advanced_stats.
game_advanced(game_id, advanced, four_factors) ==
    [c \in {"Game_ID"}
           \cup (IF advanced = "values" THEN {"OFF_RATING"} ELSE {})
           \cup (IF four_factors = "values" THEN {"FT_RATE"} ELSE {}) |->
        IF c = "Game_ID" THEN game_id
        ELSE IF c = "OFF_RATING" THEN 110 + game_id
        ELSE 20 + game_id]

NoLimit == PyNone

GlgIdle ==
    /\ glgLog = <<>>
    /\ glgLastN = NoLimit
    /\ glgOpponent = FALSE
    /\ glgAdvanced = FALSE
    /\ glgDf = <<>>
    /\ glgLeft = <<>>
    /\ glgList = <<>>
    /\ glgFailed = {}
    /\ glgPc = "idle"

InitGlg ==
    /\ glgLog \in GameLogs
    /\ glgLastN \in {NoLimit} \cup {SmallInt(n) : n \in 0..MaxLastN}
    /\ glgOpponent \in BOOLEAN
    /\ glgAdvanced \in BOOLEAN
    /\ glgDf = <<>>
    /\ glgLeft = <<>>
    /\ glgList = <<>>
    /\ glgFailed = {}
    /\ glgPc = "log"

\* nba.TeamGameLog(...).get_data_frames()[0] and df.head(last_n_games)
GlgGameLog ==
    /\ glgPc = "log"
    /\ glgDf' = IF glgLastN.kind # "none" THEN head(glgLog, IntValue(glgLastN))
                ELSE glgLog
    /\ glgPc' = "opponent"
    /\ UNCHANGED <<glgLog, glgLastN, glgOpponent, glgAdvanced, glgLeft, glgList, glgFailed>>
    /\ UNCHANGED othersGlg

\* if include_opponent_stats: df = self._add_opponent_stats(df).  The
\* LeagueGameLog request is outside any try: its failure ends the call.
GlgAddOpponentStats ==
    /\ glgPc = "opponent"
    /\ \/ /\ ~glgOpponent
          /\ glgDf' = glgDf
          /\ glgPc' = "advanced"
       \/ /\ glgOpponent
          /\ \E opponent_games \in SUBSET LogGameIds :
                glgDf' = IF opponent_stats_list(glgDf, opponent_games) # <<>>
                         THEN merge(glgDf, DataFrame(opponent_stats_list(glgDf, opponent_games)))
                         ELSE glgDf
          /\ glgPc' = "advanced"
       \/ /\ glgOpponent
          /\ glgDf' = glgDf
          /\ glgPc' = "raised"
    /\ glgLeft' = IF glgPc' = "advanced" /\ glgAdvanced
                  THEN [i \in 1..Len(glgDf') |-> glgDf'[i]["Game_ID"]]
                  ELSE <<>>
    /\ UNCHANGED <<glgLog, glgLastN, glgOpponent, glgAdvanced, glgList, glgFailed>>
    /\ UNCHANGED othersGlg

\* One iteration of the loop of _add_advanced_stats: the two requests of
\* the game, each inside try/except Exception: pass.
GlgAdvancedGame ==
    /\ glgPc = "advanced"
    /\ glgLeft # <<>>
    /\ \E advanced \in Answers, four_factors \in Answers :
          /\ glgList' = Append(glgList, game_advanced(Head(glgLeft), advanced, four_factors))
          /\ glgFailed' = glgFailed
                \cup (IF advanced = "fails"
                      THEN {<<Head(glgLeft), "OFF_RATING">>} ELSE {})
                \cup (IF four_factors = "fails"
                      THEN {<<Head(glgLeft), "FT_RATE">>} ELSE {})
    /\ glgLeft' = Tail(glgLeft)
    /\ UNCHANGED <<glgLog, glgLastN, glgOpponent, glgAdvanced, glgDf, glgPc>>
    /\ UNCHANGED othersGlg

\* The merge of advanced_stats_list, self.game_log = df and the return
\* (standardize=False).
GlgReturn ==
    /\ glgPc = "advanced"
    /\ glgLeft = <<>>
    /\ glgDf' = IF glgList # <<>> THEN merge(glgDf, DataFrame(glgList)) ELSE glgDf
    /\ glgPc' = "returned"
    /\ UNCHANGED <<glgLog, glgLastN, glgOpponent, glgAdvanced, glgLeft, glgList, glgFailed>>
    /\ UNCHANGED othersGlg

NextGlg == GlgGameLog \/ GlgAddOpponentStats \/ GlgAdvancedGame \/ GlgReturn

\* min(n, N), and N for n None.
RowsAsked ==
    IF glgLastN.kind = "none" \/ IntValue(glgLastN) > Len(glgLog)
    THEN Len(glgLog) ELSE IntValue(glgLastN)

MaxLdrRows == 3
MaxUnder == 2

LeaderValues == {5, 7}

\* The tables LeagueDashPlayerStats may answer with.
LeaderTables ==
    UNION {{[i \in 1..n |-> [player |-> i, value |-> values[i], RANK |-> 0]] :
               values \in [1..n -> LeaderValues]} : n \in 0..MaxLdrRows}

\* The limits tried: below 1, within the table, beyond it, and around the
\* tool's upper limit.
LeaderLimits == ((0 - MaxUnder)..(MaxLdrRows + 1)) \cup {100, 101}

\* The categories as a caller may write them.
LeaderInputs ==
    DOMAIN STAT_CATEGORIES
        \cup {Lower(k) : k \in DOMAIN STAT_CATEGORIES}
        \cup {"Points", "field goal pct", "Three-Point_Pct", "games played",
              "zone", ""}

\* df.sort_values(by=stat_abbrev, ascending=False): the orders of the rows
\* in which no value is followed by a larger one.
sort_values(df) ==
    {[i \in 1..Len(df) |-> df[order[i]]] :
        order \in {f \in [1..Len(df) -> 1..Len(df)] :
                      /\ \A i, j \in 1..Len(df) : i # j => f[i] # f[j]
                      /\ \A i, j \in 1..Len(df) :
                            i < j => df[f[i]].value >= df[f[j]].value}}

\* df.insert(0, "RANK", range(1, len(df) + 1))
insert_RANK(df) == [i \in 1..Len(df) |-> [df[i] EXCEPT !.RANK = i]]

NoLeaders == [status |-> "none", error |-> "", rows |-> <<>>]

LdrIdle ==
    /\ ldrVia = ""
    /\ ldrStat = ""
    /\ ldrLimit = 0
    /\ ldrTable = <<>>
    /\ ldrPc = "idle"
    /\ ldrResult = NoLeaders

InitLdr ==
    /\ ldrVia \in {"League", "tool"}
    /\ ldrStat \in LeaderInputs
    /\ ldrLimit \in LeaderLimits
    /\ ldrTable \in LeaderTables
    /\ ldrPc = "start"
    /\ ldrResult = NoLeaders

\* The tool up to its League(...) call: validate_limit(limit, 1, 100), then
\* the constructor, which has no parameter named league.
LdrTool ==
    /\ ldrPc = "start"
    /\ ldrVia = "tool"
    /\ ldrResult' =
          IF ~validate_limit(SmallInt(ldrLimit), 1, 100)
          THEN [status |-> "raised", error |-> "ValueError", rows |-> <<>>]
          ELSE [status |-> "raised", error |-> "TypeError", rows |-> <<>>]
    /\ ldrPc' = "done"
    /\ UNCHANGED <<ldrVia, ldrStat, ldrLimit, ldrTable>>
    /\ UNCHANGED othersLdr

\* League.get_league_leaders up to its request: the category check.
LdrCheckStat ==
    /\ ldrPc = "start"
    /\ ldrVia = "League"
    /\ IF StatCategoryCheck(ldrStat).ok
       THEN ldrPc' = "request" /\ ldrResult' = ldrResult
       ELSE /\ ldrPc' = "done"
            /\ ldrResult' = [status |-> "raised", error |-> "ValueError", rows |-> <<>>]
    /\ UNCHANGED <<ldrVia, ldrStat, ldrLimit, ldrTable>>
    /\ UNCHANGED othersLdr

\* The request, sort_values(...).head(limit).reset_index(drop=True), the
\* RANK column and the return (standardize=False).
LdrLeaders ==
    /\ ldrPc = "request"
    /\ \E sorted \in sort_values(ldrTable) :
          ldrResult' = [status |-> "returned", error |-> "",
                        rows |-> insert_RANK(head(sorted, ldrLimit))]
    /\ ldrPc' = "done"
    /\ UNCHANGED <<ldrVia, ldrStat, ldrLimit, ldrTable>>
    /\ UNCHANGED othersLdr

NextLdr == LdrTool \/ LdrCheckStat \/ LdrLeaders

\* The rows returned are leaders: in non-increasing order of the value,
\* ranked 1, 2, ... in row order, each a row of the upstream table, and no
\* row left out has a larger value than a row returned.
Leaders(rows) ==
    /\ \A i, j \in 1..Len(rows) : i < j => rows[i].value >= rows[j].value
    /\ \A i \in 1..Len(rows) : rows[i].RANK = i
    /\ \A i \in 1..Len(rows) :
          /\ rows[i].player \in 1..Len(ldrTable)
          /\ rows[i].value = ldrTable[rows[i].player].value
    /\ \A i, j \in 1..Len(rows) : i # j => rows[i].player # rows[j].player
    /\ \A k \in 1..Len(ldrTable) :
          (\A i \in 1..Len(rows) : rows[i].player # k) =>
             \A i \in 1..Len(rows) : rows[i].value >= ldrTable[k].value

DocumentedCategory ==
    Upper(ldrStat) \in DOMAIN STAT_CATEGORIES \/ Upper(ldrStat) \in Values(STAT_CATEGORIES)

\* C25: League.get_league_leaders accepts every name and abbreviation of
\* STAT_CATEGORIES and returns, for every integer limit, at most
\* max(limit, 0) rows: the leaders of the statistic, ranked.
C25_LeagueLeaders ==
    (ldrVia = "League" /\ ldrPc = "done") =>
        /\ DocumentedCategory => ldrResult.status = "returned"
        /\ ldrResult.status = "returned" =>
              /\ Len(ldrResult.rows) <= (IF ldrLimit > 0 THEN ldrLimit ELSE 0)
              /\ Leaders(ldrResult.rows)

\* C25 for limits of 0 and more: min(limit, N) leaders.
C25_LeadersWithinLimit ==
    (ldrVia = "League" /\ ldrPc = "done" /\ ldrLimit >= 0) =>
        /\ DocumentedCategory => ldrResult.status = "returned"
        /\ ldrResult.status = "returned" =>
              /\ Len(ldrResult.rows) =
                    (IF ldrLimit < Len(ldrTable) THEN ldrLimit ELSE Len(ldrTable))
              /\ Leaders(ldrResult.rows)

\* C25 for the tool: a limit outside 1..100 is rejected with a ValueError.
C25_ToolRejectsLimit ==
    (ldrVia = "tool" /\ ldrPc = "done" /\ ldrLimit \notin 1..100) =>
        ldrResult.status = "raised" /\ ldrResult.error = "ValueError"

(***************************************************************************)
(* Formatter.format_season_id on the documented forms of a season, and on  *)
(* its own result.                                                         *)
(***************************************************************************)
\* An 8-digit season id as an int.
SeasonIdInt(y) ==
    PyInt(<<(y * 10000 + y + 1) \div Base, (y * 10000 + y + 1) % Base>>)

\* The forms of SeasonInputs, and 'YYYY-YYYY' and the 8-digit id as str and
\* as int.
SeasonIdInputs ==
    SeasonInputs
        \cup {PyString(NatStr(y) \o "-" \o NatStr(y + 1)) : y \in FourDigitYears}
        \cup {PyString(NatStr(y) \o NatStr(y + 1)) : y \in FourDigitYears}
        \cup {SeasonIdInt(y) : y \in FourDigitYears}

NoSeasonId == Ok("")

SidIdle ==
    /\ sidIn = PyNone
    /\ sidOut = NoSeasonId
    /\ sidOut2 = NoSeasonId
    /\ sidPhase = "idle"

InitSid ==
    /\ sidIn \in SeasonIdInputs
    /\ sidOut = NoSeasonId
    /\ sidOut2 = NoSeasonId
    /\ sidPhase = "input"

\* Formatter.format_season_id(x)
FormatSeasonId ==
    /\ sidPhase = "input"
    /\ sidOut' = format_season_id(sidIn)
    /\ sidPhase' = "formatted"
    /\ UNCHANGED <<sidIn, sidOut2>>
    /\ UNCHANGED othersSid

\* Formatter.format_season_id(Formatter.format_season_id(x))
ReformatSeasonId ==
    /\ sidPhase = "formatted"
    /\ sidOut.ok
    /\ sidOut2' = format_season_id(PyString(sidOut.val))
    /\ sidPhase' = "reformatted"
    /\ UNCHANGED <<sidIn, sidOut>>
    /\ UNCHANGED othersSid

NextSid == FormatSeasonId \/ ReformatSeasonId

\* The year the input names: the 8-digit id's first four digits, else the
\* number before the hyphen if there is one, else the number.
SidNamedYear ==
    LET text == PyStr(sidIn)
    IN  IF Len(text) = 8 THEN NatOf(SubSeq(text, 1, 4), 0)
        ELSE NatOf(SplitOn(text, "-")[1], 0)

\* The starting year it stands for: 00-49 are 2000-2049, 50-99 are
\* 1950-1999.
SidStartingYear ==
    IF SidNamedYear >= 100 THEN SidNamedYear
    ELSE IF SidNamedYear <= 49 THEN 2000 + SidNamedYear
    ELSE 1900 + SidNamedYear

\* C26: format_season_id returns, for every documented form, the 8 digits
\* of the starting year followed by the next year, and applied to its own
\* result it returns the result.
C26_SeasonId ==
    /\ sidPhase \in {"formatted", "reformatted"} =>
          /\ sidOut.ok
          /\ Len(sidOut.val) = 8 /\ IsDigitStr(sidOut.val)
          /\ sidOut.val = NatStr(SidStartingYear) \o NatStr(SidStartingYear + 1)
    /\ sidPhase = "reformatted" => sidOut2 = sidOut

\* 'YY-YY' across the century, formatted twice.
C26_Witness ==
    /\ sidPhase = "reformatted"
    /\ sidIn = PyString("99-00")
    /\ sidOut2 = Ok("19992000")

(***************************************************************************)
(* The column names of one table through standardize_dataframe: every      *)
(* column renamed by the column name normalizer, then the metadata columns *)
(* injected.                                                               *)
(***************************************************************************)
MaxTblCols == 3

\* Column names as upstream tables spell them.
UpstreamColumns ==
    {"PLAYER_ID", "PERSON_ID", "personId", "playerId", "TEAM_ID", "TeamID",
     "teamId", "GAME_ID", "gameId", "PLAYER", "SEASON", "PTS"}

\* The column lists of the raw tables: names pairwise distinct ignoring
\* case.
RawColumnLists ==
    UNION {{f \in [1..n -> UpstreamColumns] :
               \A i, j \in 1..n : i # j => Lower(f[i]) # Lower(f[j])} :
           n \in 1..MaxTblCols}

\* Step 1 of standardize_dataframe on the column names.
RenameColumns(columns) == [j \in 1..Len(columns) |-> NormalizeColumn(columns[j])]

\* Steps 3 and 4: season_id and is_playoffs set on the table, a new column
\* where the table has none of that name.
InjectColumns(columns, season, playoffs) ==
    LET names == {columns[j] : j \in 1..Len(columns)}
        with_season ==
            IF season /\ "season_id" \notin names
            THEN Append(columns, "season_id") ELSE columns
    IN  IF playoffs /\ "is_playoffs" \notin names
        THEN Append(with_season, "is_playoffs") ELSE with_season

TblIdle ==
    /\ tblRaw = <<>>
    /\ tblColumns = <<>>
    /\ tblInjected = 0
    /\ tblPhase = "idle"

InitTbl ==
    /\ tblRaw \in RawColumnLists
    /\ tblColumns = <<>>
    /\ tblInjected = 0
    /\ tblPhase = "raw"

TblRename ==
    /\ tblPhase = "raw"
    /\ tblColumns' = RenameColumns(tblRaw)
    /\ tblPhase' = "renamed"
    /\ UNCHANGED <<tblRaw, tblInjected>>
    /\ UNCHANGED othersTbl

TblInject ==
    /\ tblPhase = "renamed"
    /\ \E season \in BOOLEAN, playoffs \in BOOLEAN :
          /\ tblColumns' = InjectColumns(tblColumns, season, playoffs)
          /\ tblInjected' = (IF season THEN 1 ELSE 0) + (IF playoffs THEN 1 ELSE 0)
    /\ tblPhase' = "standardized"
    /\ UNCHANGED tblRaw
    /\ UNCHANGED othersTbl

NextTbl == TblRename \/ TblInject

ColumnNames == {tblColumns[j] : j \in 1..Len(tblColumns)}

\* C27: the renamed columns of a raw table are pairwise distinct, and the
\* standardized table has as many distinct column names as the raw table,
\* plus the injected ones.
C27_NoColumnsMerged ==
    /\ tblPhase = "renamed" => Cardinality(ColumnNames) = Len(tblRaw)
    /\ tblPhase = "standardized" =>
          Cardinality(ColumnNames) = Len(tblRaw) + tblInjected

\* C27 for the tables without two spellings of one ID column.
C27_NoAliasPair ==
    (\A i, j \in 1..Len(tblRaw) :
        i # j => NormalizeColumn(tblRaw[i]) # NormalizeColumn(tblRaw[j])) =>
        /\ tblPhase = "renamed" => Cardinality(ColumnNames) = Len(tblRaw)
        /\ tblPhase = "standardized" =>
              Cardinality(ColumnNames) = Len(tblRaw) + tblInjected

(***************************************************************************)
(* The specifications.                                                     *)
(***************************************************************************)
InitSpecCols ==
    InitCols /\ GidIdle /\ SalIdle /\ ErrIdle /\ CallIdle /\ RateIdle
    /\ StdIdle /\ ValIdle /\ PlrIdle /\ RngIdle /\ PstIdle /\ RecIdle
    /\ LgsIdle /\ LimIdle /\ SrvIdle /\ SynIdle /\ DetIdle /\ TmsIdle
    /\ GlgIdle /\ LdrIdle /\ SidIdle /\ TblIdle

SpecCols == InitSpecCols /\ [][NextCols]_vars

InitSpecGid ==
    InitGid /\ ColsIdle /\ SalIdle /\ ErrIdle /\ CallIdle /\ RateIdle
    /\ StdIdle /\ ValIdle /\ PlrIdle /\ RngIdle /\ PstIdle /\ RecIdle
    /\ LgsIdle /\ LimIdle /\ SrvIdle /\ SynIdle /\ DetIdle /\ TmsIdle
    /\ GlgIdle /\ LdrIdle /\ SidIdle /\ TblIdle

SpecGid == InitSpecGid /\ [][NextGid]_vars

InitSpecSal ==
    InitSal /\ ColsIdle /\ GidIdle /\ ErrIdle /\ CallIdle /\ RateIdle
    /\ StdIdle /\ ValIdle /\ PlrIdle /\ RngIdle /\ PstIdle /\ RecIdle
    /\ LgsIdle /\ LimIdle /\ SrvIdle /\ SynIdle /\ DetIdle /\ TmsIdle
    /\ GlgIdle /\ LdrIdle /\ SidIdle /\ TblIdle

SpecSal == InitSpecSal /\ [][NextSal]_vars

InitSpecErr ==
    InitErr /\ ColsIdle /\ GidIdle /\ SalIdle /\ CallIdle /\ RateIdle
    /\ StdIdle /\ ValIdle /\ PlrIdle /\ RngIdle /\ PstIdle /\ RecIdle
    /\ LgsIdle /\ LimIdle /\ SrvIdle /\ SynIdle /\ DetIdle /\ TmsIdle
    /\ GlgIdle /\ LdrIdle /\ SidIdle /\ TblIdle

SpecErr == InitSpecErr /\ [][NextErr]_vars

InitSpecCall ==
    InitCall /\ ColsIdle /\ GidIdle /\ SalIdle /\ ErrIdle /\ RateIdle
    /\ StdIdle /\ ValIdle /\ PlrIdle /\ RngIdle /\ PstIdle /\ RecIdle
    /\ LgsIdle /\ LimIdle /\ SrvIdle /\ SynIdle /\ DetIdle /\ TmsIdle
    /\ GlgIdle /\ LdrIdle /\ SidIdle /\ TblIdle

SpecCall == InitSpecCall /\ [][NextCall]_vars

InitSpecRate ==
    InitRate /\ ColsIdle /\ GidIdle /\ SalIdle /\ ErrIdle /\ CallIdle
    /\ StdIdle /\ ValIdle /\ PlrIdle /\ RngIdle /\ PstIdle /\ RecIdle
    /\ LgsIdle /\ LimIdle /\ SrvIdle /\ SynIdle /\ DetIdle /\ TmsIdle
    /\ GlgIdle /\ LdrIdle /\ SidIdle /\ TblIdle

SpecRate == InitSpecRate /\ [][NextRate]_vars

InitSpecStd ==
    InitStd /\ ColsIdle /\ GidIdle /\ SalIdle /\ ErrIdle /\ CallIdle
    /\ RateIdle /\ ValIdle /\ PlrIdle /\ RngIdle /\ PstIdle /\ RecIdle
    /\ LgsIdle /\ LimIdle /\ SrvIdle /\ SynIdle /\ DetIdle /\ TmsIdle
    /\ GlgIdle /\ LdrIdle /\ SidIdle /\ TblIdle

SpecStd == InitSpecStd /\ [][NextStd]_vars

InitSpecVal ==
    InitVal /\ ColsIdle /\ GidIdle /\ SalIdle /\ ErrIdle /\ CallIdle
    /\ RateIdle /\ StdIdle /\ PlrIdle /\ RngIdle /\ PstIdle /\ RecIdle
    /\ LgsIdle /\ LimIdle /\ SrvIdle /\ SynIdle /\ DetIdle /\ TmsIdle
    /\ GlgIdle /\ LdrIdle /\ SidIdle /\ TblIdle

SpecVal == InitSpecVal /\ [][NextVal]_vars

InitSpecPlr ==
    InitPlr /\ ColsIdle /\ GidIdle /\ SalIdle /\ ErrIdle /\ CallIdle
    /\ RateIdle /\ StdIdle /\ ValIdle /\ RngIdle /\ PstIdle /\ RecIdle
    /\ LgsIdle /\ LimIdle /\ SrvIdle /\ SynIdle /\ DetIdle /\ TmsIdle
    /\ GlgIdle /\ LdrIdle /\ SidIdle /\ TblIdle

SpecPlr == InitSpecPlr /\ [][NextPlr]_vars

InitSpecRng ==
    InitRng /\ ColsIdle /\ GidIdle /\ SalIdle /\ ErrIdle /\ CallIdle
    /\ RateIdle /\ StdIdle /\ ValIdle /\ PlrIdle /\ PstIdle /\ RecIdle
    /\ LgsIdle /\ LimIdle /\ SrvIdle /\ SynIdle /\ DetIdle /\ TmsIdle
    /\ GlgIdle /\ LdrIdle /\ SidIdle /\ TblIdle

SpecRng == InitSpecRng /\ [][NextRng]_vars

InitSpecPst ==
    InitPst /\ ColsIdle /\ GidIdle /\ SalIdle /\ ErrIdle /\ CallIdle
    /\ RateIdle /\ StdIdle /\ ValIdle /\ PlrIdle /\ RngIdle /\ RecIdle
    /\ LgsIdle /\ LimIdle /\ SrvIdle /\ SynIdle /\ DetIdle /\ TmsIdle
    /\ GlgIdle /\ LdrIdle /\ SidIdle /\ TblIdle

SpecPst == InitSpecPst /\ [][NextPst]_vars

InitSpecRec ==
    InitRec /\ ColsIdle /\ GidIdle /\ SalIdle /\ ErrIdle /\ CallIdle
    /\ RateIdle /\ StdIdle /\ ValIdle /\ PlrIdle /\ RngIdle /\ PstIdle
    /\ LgsIdle /\ LimIdle /\ SrvIdle /\ SynIdle /\ DetIdle /\ TmsIdle
    /\ GlgIdle /\ LdrIdle /\ SidIdle /\ TblIdle

SpecRec == InitSpecRec /\ [][NextRec]_vars

InitSpecLgs ==
    InitLgs /\ ColsIdle /\ GidIdle /\ SalIdle /\ ErrIdle /\ CallIdle
    /\ RateIdle /\ StdIdle /\ ValIdle /\ PlrIdle /\ RngIdle /\ PstIdle
    /\ RecIdle /\ LimIdle /\ SrvIdle /\ SynIdle /\ DetIdle /\ TmsIdle
    /\ GlgIdle /\ LdrIdle /\ SidIdle /\ TblIdle

SpecLgs == InitSpecLgs /\ [][NextLgs]_vars

InitSpecLim ==
    InitLim /\ ColsIdle /\ GidIdle /\ SalIdle /\ ErrIdle /\ CallIdle
    /\ RateIdle /\ StdIdle /\ ValIdle /\ PlrIdle /\ RngIdle /\ PstIdle
    /\ RecIdle /\ LgsIdle /\ SrvIdle /\ SynIdle /\ DetIdle /\ TmsIdle
    /\ GlgIdle /\ LdrIdle /\ SidIdle /\ TblIdle

SpecLim == InitSpecLim /\ [][NextLim]_vars

InitSpecSrv ==
    InitSrv /\ ColsIdle /\ GidIdle /\ SalIdle /\ ErrIdle /\ CallIdle
    /\ RateIdle /\ StdIdle /\ ValIdle /\ PlrIdle /\ RngIdle /\ PstIdle
    /\ RecIdle /\ LgsIdle /\ LimIdle /\ SynIdle /\ DetIdle /\ TmsIdle
    /\ GlgIdle /\ LdrIdle /\ SidIdle /\ TblIdle

SpecSrv == InitSpecSrv /\ [][NextSrv]_vars

InitSpecSyn ==
    InitSyn /\ ColsIdle /\ GidIdle /\ SalIdle /\ ErrIdle /\ CallIdle
    /\ RateIdle /\ StdIdle /\ ValIdle /\ PlrIdle /\ RngIdle /\ PstIdle
    /\ RecIdle /\ LgsIdle /\ LimIdle /\ SrvIdle /\ DetIdle /\ TmsIdle
    /\ GlgIdle /\ LdrIdle /\ SidIdle /\ TblIdle

SpecSyn == InitSpecSyn /\ [][NextSyn]_vars

InitSpecDet ==
    InitDet /\ ColsIdle /\ GidIdle /\ SalIdle /\ ErrIdle /\ CallIdle
    /\ RateIdle /\ StdIdle /\ ValIdle /\ PlrIdle /\ RngIdle /\ PstIdle
    /\ RecIdle /\ LgsIdle /\ LimIdle /\ SrvIdle /\ SynIdle /\ TmsIdle
    /\ GlgIdle /\ LdrIdle /\ SidIdle /\ TblIdle

SpecDet == InitSpecDet /\ [][NextDet]_vars

InitSpecTms ==
    InitTms /\ ColsIdle /\ GidIdle /\ SalIdle /\ ErrIdle /\ CallIdle
    /\ RateIdle /\ StdIdle /\ ValIdle /\ PlrIdle /\ RngIdle /\ PstIdle
    /\ RecIdle /\ LgsIdle /\ LimIdle /\ SrvIdle /\ SynIdle /\ DetIdle
    /\ GlgIdle /\ LdrIdle /\ SidIdle /\ TblIdle

SpecTms == InitSpecTms /\ [][NextTms]_vars

InitSpecGlg ==
    InitGlg /\ ColsIdle /\ GidIdle /\ SalIdle /\ ErrIdle /\ CallIdle
    /\ RateIdle /\ StdIdle /\ ValIdle /\ PlrIdle /\ RngIdle /\ PstIdle
    /\ RecIdle /\ LgsIdle /\ LimIdle /\ SrvIdle /\ SynIdle /\ DetIdle
    /\ TmsIdle /\ LdrIdle /\ SidIdle /\ TblIdle

SpecGlg == InitSpecGlg /\ [][NextGlg]_vars

InitSpecLdr ==
    InitLdr /\ ColsIdle /\ GidIdle /\ SalIdle /\ ErrIdle /\ CallIdle
    /\ RateIdle /\ StdIdle /\ ValIdle /\ PlrIdle /\ RngIdle /\ PstIdle
    /\ RecIdle /\ LgsIdle /\ LimIdle /\ SrvIdle /\ SynIdle /\ DetIdle
    /\ TmsIdle /\ GlgIdle /\ SidIdle /\ TblIdle

SpecLdr == InitSpecLdr /\ [][NextLdr]_vars

InitSpecSid ==
    InitSid /\ ColsIdle /\ GidIdle /\ SalIdle /\ ErrIdle /\ CallIdle
    /\ RateIdle /\ StdIdle /\ ValIdle /\ PlrIdle /\ RngIdle /\ PstIdle
    /\ RecIdle /\ LgsIdle /\ LimIdle /\ SrvIdle /\ SynIdle /\ DetIdle
    /\ TmsIdle /\ GlgIdle /\ LdrIdle /\ TblIdle

SpecSid == InitSpecSid /\ [][NextSid]_vars

InitSpecTbl ==
    InitTbl /\ ColsIdle /\ GidIdle /\ SalIdle /\ ErrIdle /\ CallIdle
    /\ RateIdle /\ StdIdle /\ ValIdle /\ PlrIdle /\ RngIdle /\ PstIdle
    /\ RecIdle /\ LgsIdle /\ LimIdle /\ SrvIdle /\ SynIdle /\ DetIdle
    /\ TmsIdle /\ GlgIdle /\ LdrIdle /\ SidIdle

SpecTbl == InitSpecTbl /\ [][NextTbl]_vars

\* One caller.  The scheduler lets the caller run and time passes.
InitSpecLimOne ==
    /\ LimStart({1})
    /\ ColsIdle
    /\ GidIdle
    /\ SalIdle
    /\ ErrIdle
    /\ CallIdle
    /\ RateIdle
    /\ StdIdle
    /\ ValIdle
    /\ PlrIdle
    /\ RngIdle
    /\ PstIdle
    /\ RecIdle
    /\ LgsIdle
    /\ SrvIdle
    /\ SynIdle
    /\ DetIdle
    /\ TmsIdle
    /\ GlgIdle
    /\ LdrIdle
    /\ SidIdle
    /\ TblIdle

SpecLimOne ==
    InitSpecLimOne /\ [][NextLim]_vars /\ WF_vars(Tick) /\ WF_vars(Runs(1))

====
